---- MODULE Spec2Model ----
(***************************************************************************)
(* A model of the key-repeat daemon: KeyRepeater (the repeat scheduler and *)
(* its decision cache), DefaultWindowContext, Config::should_repeat_key,   *)
(* the repeat timer tasks and the window-detection loop that drives        *)
(* handle_window_event.  The key-event loop, the detection loop and every  *)
(* timer are separate tokio tasks on a multi-threaded runtime, so each     *)
(* access to shared state (registry, sink, window context, task handles)   *)
(* is a step of its own.  Steps that touch only a handler's locals are     *)
(* merged into the next step that touches shared state.  The virtual       *)
(* device accepts every write (dry_run is off), and an iteration over a    *)
(* DashMap sees the map as it is at one instant.                           *)
(***************************************************************************)
EXTENDS Integers, Sequences, FiniteSets, TLC

(***************************************************************************)
(* Bounds of the model.                                                    *)
(***************************************************************************)
MaxEvents == 2

(***************************************************************************)
(* Strings are sequences of characters, so that case folding and the       *)
(* substring test are computed rather than assumed.                        *)
(***************************************************************************)
LowerChar(c) ==
    CASE c = "N" -> "n"
      [] c = "V" -> "v"
      [] c = "I" -> "i"
      [] c = "M" -> "m"
      [] c = "W" -> "w"
      [] OTHER -> c

to_lowercase(s) == [i \in 1..Len(s) |-> LowerChar(s[i])]

is_uppercase(c) == LowerChar(c) # c

contains(s, p) ==
    \E i \in 0..(Len(s) - Len(p)) : SubSeq(s, i + 1, i + Len(p)) = p

(***************************************************************************)
(* std DefaultHasher (SipHash with fixed keys): a deterministic function   *)
(* of the content hashed, 64 bits wide in the program.  The model computes *)
(* a polynomial content hash in its place, reduced to a width that TLC's   *)
(* integers hold; it is nonzero and collision free on the model's inputs,  *)
(* as SipHash is on the program's.                                         *)
(***************************************************************************)
CharCode(c) ==
    CASE c = "n" -> 110 [] c = "v" -> 118 [] c = "i" -> 105 [] c = "m" -> 109
      [] c = "w" -> 119 [] c = "e" -> 101 [] c = "b" -> 98 [] c = "j" -> 106
      [] c = "N" -> 78 [] c = "V" -> 86 [] c = "I" -> 73 [] c = "M" -> 77
      [] c = "W" -> 87 [] c = "s" -> 115 [] c = "p" -> 112 [] c = "a" -> 97
      [] c = "c" -> 99 [] c = "f" -> 102 [] c = "1" -> 49 [] c = "2" -> 50
      [] OTHER -> 63

RECURSIVE HashFold(_, _, _)
HashFold(codes, i, h) ==
    IF i > Len(codes) THEN h
    ELSE HashFold(codes, i + 1, (h * 31 + codes[i]) % 65521)

DefaultHasher(codes) == 1 + HashFold(codes, 1, 7)

hash_str(s) == DefaultHasher([i \in 1..Len(s) |-> CharCode(s[i])] \o <<255>>)

hash_u16(n) == DefaultHasher(<<n % 256, n \div 256>>)

(***************************************************************************)
(* Modifiers: a bit set over ctrl, alt, shift, super.                      *)
(***************************************************************************)
CTRL == 1
ALT == 2
SHIFT == 4
SUPER == 8

HasBit(bits, b) == (bits \div b) % 2 = 1

to_vec(bits) ==
    (IF HasBit(bits, CTRL) THEN <<"ctrl">> ELSE <<>>)
    \o (IF HasBit(bits, ALT) THEN <<"alt">> ELSE <<>>)
    \o (IF HasBit(bits, SHIFT) THEN <<"shift">> ELSE <<>>)
    \o (IF HasBit(bits, SUPER) THEN <<"super">> ELSE <<>>)

ModifierBit(m) ==
    CASE m = "ctrl" -> CTRL [] m = "alt" -> ALT [] m = "shift" -> SHIFT
      [] m = "super" -> SUPER [] OTHER -> 0

BitOr(bits, b) == IF b = 0 \/ HasBit(bits, b) THEN bits ELSE bits + b

\* A fold that keeps the bit of the latest name only.
RECURSIVE bits_fold_assigning(_, _, _)
bits_fold_assigning(modifiers, i, bits) ==
    IF i > Len(modifiers) THEN bits
    ELSE bits_fold_assigning(modifiers, i + 1,
                             IF ModifierBit(modifiers[i]) = 0 THEN bits
                             ELSE ModifierBit(modifiers[i]))

RECURSIVE BitsFold(_, _, _)
BitsFold(modifiers, i, bits) ==
    IF i > Len(modifiers) THEN bits
    ELSE BitsFold(modifiers, i + 1, BitOr(bits, ModifierBit(modifiers[i])))

modifiers_to_bits(modifiers) == BitsFold(modifiers, 1, 0)

from_vec(modifiers) == BitsFold(modifiers, 1, 0)

(***************************************************************************)
(* Key codes and their names.                                              *)
(***************************************************************************)
KEY_J == 36
KEY_SPACE == 57
KEY_F12 == 88
KEY_LEFTCTRL == 29
KEY_RIGHTCTRL == 97
KEY_LEFTALT == 56
KEY_RIGHTALT == 100
KEY_LEFTSHIFT == 42
KEY_RIGHTSHIFT == 54
KEY_LEFTMETA == 125
KEY_RIGHTMETA == 126

None == "None"

reverse_translate(keycode) ==
    CASE keycode = KEY_J -> "j"
      [] keycode = KEY_SPACE -> "space"
      [] keycode = KEY_F12 -> "f12"
      [] keycode = KEY_LEFTCTRL -> "ctrl"
      [] keycode = KEY_LEFTSHIFT -> "shift"
      [] OTHER -> None

KeyNameChars(name) ==
    CASE name = "j" -> <<"j">>
      [] name = "space" -> <<"s", "p", "a", "c", "e">>
      [] name = "f12" -> <<"f", "1", "2">>
      [] name = "ctrl" -> <<"c", "t", "r", "l">>
      [] name = "shift" -> <<"s", "h", "i", "f", "t">>
      [] OTHER -> <<>>

(***************************************************************************)
(* Configurations: a toggle key that is also mapped, one key with allowed  *)
(* modifiers and one without; with no window pattern (every window         *)
(* matches) and with one pattern.                                          *)
(***************************************************************************)
Mappings ==
    << [key |-> "space", modifiers |-> <<"ctrl", "alt">>],
       [key |-> "j", modifiers |-> <<>>],
       [key |-> "f12", modifiers |-> <<>>] >>

\* The settings of Config::default, with a toggle key.
Settings(patterns, mappings) ==
    [ logging |-> [level |-> "info", format |-> "pretty"],
      repeat |-> [repeat_delay_ms |-> 50, repeat_toggle_key |-> "f12"],
      window |-> [detection_mode |-> "dbus", polling_interval_ms |-> 1000,
                  window_title_patterns |-> patterns],
      mappings |-> mappings ]

ConfigAnyWindow == Settings(<<>>, Mappings)

ConfigNvim == Settings(<< <<"n", "v", "i", "m">> >>, Mappings)

\* One key mapped twice, bare and with ctrl; a pattern written in mixed case.
ConfigTwice ==
    Settings(<< <<"N", "V", "i", "m">>, <<"w", "e", "b">> >>,
             << [key |-> "j", modifiers |-> <<>>],
                [key |-> "j", modifiers |-> <<"ctrl">>],
                [key |-> "space", modifiers |-> <<"ctrl", "alt">>] >>)

\* A configuration whose only pattern no window of the model matches.
ConfigWeb == Settings(<< <<"w", "e", "b">> >>, Mappings)

\* A mapping with a modifier name validation rejects.
ConfigBadModifier ==
    Settings(<<>>, << [key |-> "j", modifiers |-> <<"meta">>] >>)

\* A validation that takes 100 for too short a polling interval.
validate_above_100(cfg) ==
    /\ cfg.logging.level \in {"trace", "debug", "info", "warn", "error"}
    /\ cfg.logging.format \in {"pretty", "json"}
    /\ cfg.repeat.repeat_delay_ms # 0
    /\ cfg.window.detection_mode \in {"dbus", "polling"}
    /\ cfg.window.polling_interval_ms > 100
    /\ \A i \in 1..Len(cfg.mappings) :
          /\ cfg.mappings[i].key # ""
          /\ \A j \in 1..Len(cfg.mappings[i].modifiers) :
                cfg.mappings[i].modifiers[j] \in {"ctrl", "alt", "shift", "super"}

validate(cfg) ==
    /\ cfg.logging.level \in {"trace", "debug", "info", "warn", "error"}
    /\ cfg.logging.format \in {"pretty", "json"}
    /\ cfg.repeat.repeat_delay_ms # 0
    /\ cfg.window.detection_mode \in {"dbus", "polling"}
    /\ cfg.window.polling_interval_ms >= 100
    /\ \A i \in 1..Len(cfg.mappings) :
          /\ cfg.mappings[i].key # ""
          /\ \A j \in 1..Len(cfg.mappings[i].modifiers) :
                cfg.mappings[i].modifiers[j] \in {"ctrl", "alt", "shift", "super"}

Range(s) == {s[i] : i \in 1..Len(s)}

key_set(cfg) == {cfg.mappings[i].key : i \in 1..Len(cfg.mappings)}

pattern_set_lower(cfg) ==
    {to_lowercase(p) : p \in Range(cfg.window.window_title_patterns)}

\* A pattern test that forgets to fold the title's case.
window_matches_case(cfg, window_title) ==
    \E pattern \in pattern_set_lower(cfg) : contains(window_title, pattern)

window_matches(cfg, window_title) ==
    LET window_title_lower ==
            IF \E i \in 1..Len(window_title) : is_uppercase(window_title[i])
            THEN to_lowercase(window_title) ELSE window_title
    IN  \E pattern \in pattern_set_lower(cfg) : contains(window_title_lower, pattern)

\* A modifier test that accepts a combination with one allowed modifier in it.
modifiers_match_any(mapping, modifiers) ==
    IF mapping.modifiers = <<>> THEN modifiers = <<>>
    ELSE modifiers = <<>>
         \/ \E m \in Range(modifiers) : m \in Range(mapping.modifiers)

modifiers_match(mapping, modifiers) ==
    IF mapping.modifiers = <<>> THEN modifiers = <<>>
    ELSE modifiers = <<>>
         \/ \A m \in Range(modifiers) : m \in Range(mapping.modifiers)

RECURSIVE MappingLoop(_, _, _, _, _)
MappingLoop(cfg, i, key, modifiers, window_title) ==
    IF i > Len(cfg.mappings) THEN FALSE
    ELSE LET mapping == cfg.mappings[i]
         IN  IF mapping.key = key /\ modifiers_match(mapping, modifiers)
             THEN IF cfg.window.window_title_patterns = <<>> THEN TRUE
                  ELSE window_matches(cfg, window_title)
             ELSE MappingLoop(cfg, i + 1, key, modifiers, window_title)

should_repeat_key(cfg, key, modifiers, window_title) ==
    IF key \notin key_set(cfg) THEN FALSE
    ELSE IF modifiers = <<>>
         THEN IF pattern_set_lower(cfg) = {} THEN TRUE
              ELSE window_matches(cfg, window_title)
         ELSE MappingLoop(cfg, 1, key, modifiers, window_title)

(***************************************************************************)
(* Events, windows and hashes.                                             *)
(***************************************************************************)
KeyCodes == {KEY_SPACE, KEY_J, KEY_F12}

KeyStates == {"Pressed", "Released", "Repeat"}

EventModifiers == {0, CTRL}

\* The events the keyboard delivers: space (mapped with ctrl and alt) in every
\* state, with and without ctrl; j (mapped bare) pressed and released, with and
\* without ctrl; the toggle key f12 in every state.
KeyEvents ==
    [key_code : {KEY_SPACE}, state : KeyStates, modifiers : EventModifiers]
    \cup [key_code : {KEY_J}, state : {"Pressed", "Released"}, modifiers : EventModifiers]
    \cup [key_code : {KEY_F12}, state : KeyStates, modifiers : {0}]

NoEvent == [key_code |-> 0, state |-> None, modifiers |-> 0]

NoWrite == [key_code |-> 0, state |-> None, src |-> None, task |-> 0]

\* KeyEvent::combination_hash: the key code and the modifiers.
combination_hash(ev) == DefaultHasher(<<ev.key_code % 256, ev.key_code \div 256, ev.modifiers>>)

key_only_hash(ev) == hash_u16(ev.key_code)

Windows == { [title |-> <<"N", "V", "I", "M">>, class |-> "kitty"] }

NoWindow == [title |-> <<>>, class |-> None]

NoCacheKey ==
    [key_name_hash |-> 0, modifiers_bits |-> 0, title_hash |-> 0, patterns_hash |-> 0]

hash_patterns(patterns) ==
    DefaultHasher([i \in 1..Len(patterns) |-> hash_str(patterns[i]) % 256]
                  \o <<Len(patterns)>>)

(***************************************************************************)
(* State.                                                                  *)
(***************************************************************************)
VARIABLES
    config,              \* KeyRepeater.config, fixed at construction
    repetition_enabled,  \* KeyRepeater.repetition_enabled
    active_repeaters,    \* KeyRepeater.active_repeaters: key-only hash -> RepeaterTask
    decision_cache,      \* KeyRepeater.decision_cache: CacheKey -> bool
    title_hash,          \* DefaultWindowContext.title_hash
    title_lower,         \* DefaultWindowContext.title_lower
    patterns_hash,       \* DefaultWindowContext.patterns_hash
    tasks,               \* the spawned repeater_task futures, by JoinHandle
    sink,                \* the event the latest step wrote to the virtual device
    pc,                  \* position of the key-event loop and of the detection loop
    event,               \* the KeyEvent handle_key_event is processing
    should_repeat,       \* handle_key_event's local decision
    cache_key,           \* should_repeat_cached's local CacheKey
    handle,              \* the JoinHandle start_repeater spawned or stop_repeater aborted
    release_events,      \* stop_all_repeaters_gracefully's local batch, per caller
    window,              \* the WindowInfo send_window_event is delivering
    current_window,      \* RealWindowDetector.current_window
    tasks_before,        \* number of timers spawned when handle_window_event began
    stop_keys,           \* per caller of the graceful stop: the key codes that were
                         \* registered when its call began
    stop_sent,           \* per caller: the key codes of the releases it has sent
    nEvents,             \* key events delivered so far
    desktop_env,         \* RealWindowDetector.desktop_env
    working_method,      \* RealWindowDetector.working_method
    local_method,        \* the running loop's local working_method, the one it queries
    tools,               \* the desktop: what each backend's commands answer at present
    detection,           \* the function of RealWindowDetector that is running
    keyboard_handle,     \* main's JoinHandle of the keyboard listener's task
    window_handle,       \* main's JoinHandle of the window detector's task
    shutdown_result,     \* main's shutdown_result, None until the wait is over
    reported,            \* the level of main's log line about the wait
    device_mutex,        \* VirtualDevice.device: the sender holding the mutex
    device,              \* the write the uinput device received last
    sending,             \* per sender: its position in send_event and its event
    modifier_state,      \* RealKeyboardListener.modifier_state
    held,                \* the keyboard: the key codes that are physically down
    modifiers_test       \* the locals of a test that converts a Modifiers value

vars ==
    << config, repetition_enabled, active_repeaters, decision_cache, title_hash,
       title_lower, patterns_hash, tasks, sink, pc, event, should_repeat,
       cache_key, handle, release_events, window, current_window, tasks_before,
       stop_keys, stop_sent, nEvents, desktop_env, working_method, local_method,
       tools, detection, keyboard_handle, window_handle, shutdown_result,
       reported, device_mutex, device, sending, modifier_state, held,
       modifiers_test >>

detectorVars == << desktop_env, working_method, local_method, tools, detection >>

mainVars == << keyboard_handle, window_handle, shutdown_result, reported >>
deviceVars == << device_mutex, device, sending >>

listenerVars == << modifier_state, held >>
testVars == << modifiers_test >>

\* What no method of KeyRepeater and no repeater_task writes.
outerVars == << detectorVars, mainVars, deviceVars, listenerVars, testVars >>

repeaterVars == << config, repetition_enabled, active_repeaters, decision_cache >>
contextVars == << title_hash, title_lower, patterns_hash >>
keyLocals == << event, should_repeat, cache_key, handle >>
winLocals == << window, current_window, tasks_before >>
stopGhost == << stop_keys, stop_sent >>

Procs == {"key", "win", "main"}

EmptyMap == [h \in {} |-> 0]

(***************************************************************************)
(* The window detector's backends.  Each backend runs an external command; *)
(* what the command answers belongs to the desktop, not to the program:    *)
(* "failing" (the command is missing or exits with an error: test and      *)
(* get_active_window both return Err), "blind" (the command succeeds but   *)
(* names no active window: test returns Ok, get_active_window Err) or      *)
(* "answering" (both return Ok).  xdotool's test and query are one and the *)
(* same command, so it is never blind.                                     *)
(***************************************************************************)
WorkingMethods == {"Kdotool", "Xdotool", "Wmctrl", "Sway"}

DesktopEnvironments == {"KDE", "GNOME", "X11Generic", "WaylandGeneric", "Unknown"}

ToolStates(m) ==
    IF m = "Xdotool" THEN {"failing", "answering"}
    ELSE {"failing", "blind", "answering"}

Desktops == { t \in [WorkingMethods -> {"failing", "blind", "answering"}] :
                 \A m \in WorkingMethods : t[m] \in ToolStates(m) }

\* KdotoolDetector::test and its siblings, on desktop t.
test(t, m) == t[m] # "failing"

\* KdotoolDetector::get_active_window and its siblings: Ok or Err.
get_active_window(t, m) == t[m] = "answering"

probe_order(env) ==
    CASE env = "KDE" -> << "Kdotool", "Xdotool", "Wmctrl", "Sway" >>
      [] env = "WaylandGeneric" -> << "Sway", "Kdotool", "Xdotool", "Wmctrl" >>
      [] env = "X11Generic" -> << "Xdotool", "Wmctrl", "Kdotool", "Sway" >>
      [] env = "GNOME" -> << "Xdotool", "Wmctrl", "Sway", "Kdotool" >>
      [] OTHER -> << "Sway", "Xdotool", "Wmctrl", "Kdotool" >>

Err == "Err"

\* A probe that goes on after a test has succeeded and keeps the last success.
RECURSIVE ProbeLast(_, _, _, _)
ProbeLast(order, i, t, found) ==
    IF i > Len(order) THEN found
    ELSE ProbeLast(order, i + 1, t, IF test(t, order[i]) THEN order[i] ELSE found)

detect_last_working_method(env, t) == ProbeLast(probe_order(env), 1, t, Err)

\* The loop of detect_working_method over the probe order.
RECURSIVE ProbeLoop(_, _, _)
ProbeLoop(order, i, t) ==
    IF i > Len(order) THEN Err
    ELSE IF test(t, order[i]) THEN order[i]
    ELSE ProbeLoop(order, i + 1, t)

detect_working_method(env, t) == ProbeLoop(probe_order(env), 1, t)

\* A detector that has been polling a KDE desktop where every backend answers.
DetectorPolling ==
    /\ desktop_env = "KDE"
    /\ working_method = "Kdotool"
    /\ local_method = "Kdotool"
    /\ tools = [m \in WorkingMethods |-> "answering"]
    /\ detection = "run_polling_detection"

\* The callers of VirtualDevice::send_event.
Senders == {"key", "win", "timer"}

NoSend == [at |-> "idle", key_code |-> 0, value |-> 0]

NoDeviceWrite == [type |-> None, code |-> 0, value |-> 0, by |-> None]

\* VirtualDevice::new, not a dry run: the mutex is free, nothing written yet.
VirtualDeviceNew ==
    /\ device_mutex = None
    /\ device = NoDeviceWrite
    /\ sending = [s \in Senders |-> NoSend]

\* RealKeyboardListener::new: ModifierState::default, and no key is down.
ListenerNew ==
    /\ modifier_state = [ctrl |-> FALSE, alt |-> FALSE, shift |-> FALSE,
                         super_key |-> FALSE]
    /\ held = {}

\* The locals of test_modifiers_to_from_vec, with the bits the cache key
\* takes from the same list of names; `at` is the call that comes next.
ModifiersTest(original) ==
    [at |-> "to_vec", original |-> original, vec |-> <<>>, restored |-> 0, bits |-> 0]

\* No such test is running.
NoTest == [ModifiersTest(0) EXCEPT !.at = None]

\* main has spawned the two loops and waits for the shutdown signal.
Spawned ==
    /\ keyboard_handle = "running"
    /\ window_handle = "running"
    /\ shutdown_result = None
    /\ reported = None

\* KeyRepeater::new with DefaultWindowContext::new.
KeyRepeaterNew(cfg) ==
    /\ config = cfg
    /\ repetition_enabled = TRUE
    /\ active_repeaters = EmptyMap
    /\ decision_cache = EmptyMap
    /\ title_hash = 0
    /\ title_lower = <<>>
    /\ patterns_hash = hash_patterns(cfg.window.window_title_patterns)
    /\ tasks = <<>>
    /\ sink = NoWrite
    /\ event = NoEvent
    /\ should_repeat = FALSE
    /\ cache_key = NoCacheKey
    /\ handle = 0
    /\ release_events = [p \in Procs |-> <<>>]
    /\ window = NoWindow
    /\ current_window = NoWindow
    /\ tasks_before = 0
    /\ stop_keys = [p \in Procs |-> {}]
    /\ stop_sent = [p \in Procs |-> <<>>]
    /\ nEvents = 0

\* The components main creates, with the detection loop already polling.
New(cfg) ==
    /\ KeyRepeaterNew(cfg)
    /\ pc = [p \in Procs |-> "idle"]
    /\ DetectorPolling
    /\ VirtualDeviceNew
    /\ Spawned
    /\ ListenerNew
    /\ modifiers_test = NoTest

Init == \E cfg \in {ConfigAnyWindow, ConfigNvim} : New(cfg)

(***************************************************************************)
(* VirtualDevice::send_event: one key write and one sync write under the   *)
(* device mutex.  Only the key code and the state reach the device; src    *)
(* and task record which caller sent the event.  The device is write-only, *)
(* so the model keeps no log: sink is the event the latest step wrote, and *)
(* NoWrite after a step that wrote nothing.                                *)
(***************************************************************************)
VirtualKeyEvent(key_code, state, src, task) ==
    [key_code |-> key_code, state |-> state, src |-> src, task |-> task]

send_event(ev) == sink' = ev

no_write == sink' = NoWrite

(***************************************************************************)
(* handle_key_event, up to the decision.  The toggle flag is written by    *)
(* the key-event loop alone, so the entry of the handler runs up to its    *)
(* first read of shared state, the title hash in should_repeat_cached.     *)
(***************************************************************************)
Goto(p, label) == pc' = [pc EXCEPT ![p] = label]

KeyReturn ==
    /\ Goto("key", "idle")
    /\ event' = NoEvent
    /\ should_repeat' = FALSE
    /\ cache_key' = NoCacheKey
    /\ handle' = 0

\* A dispatch that treats a hardware repeat as a press.
dispatch_repeat_as_press(ev, result) ==
    IF result
    THEN CASE ev.state = "Released" -> "release_stop"
           [] OTHER -> "press_send"
    ELSE "forward"

\* The branch handle_key_event takes once the decision is known.
Dispatch(ev, result) ==
    IF result
    THEN CASE ev.state = "Pressed" -> "press_send"
           [] ev.state = "Released" -> "release_stop"
           [] OTHER -> "ignore"
    ELSE "forward"

Decided(ev, result) ==
    /\ Goto("key", Dispatch(ev, result))
    /\ event' = ev
    /\ should_repeat' = result
    /\ handle' = handle

\* A toggle check that forgets the key state.
is_toggle_key(ev) ==
    /\ config.repeat.repeat_toggle_key # None
    /\ reverse_translate(ev.key_code) # None
    /\ reverse_translate(ev.key_code) = config.repeat.repeat_toggle_key

is_toggle_press(ev) ==
    /\ config.repeat.repeat_toggle_key # None
    /\ reverse_translate(ev.key_code) # None
    /\ reverse_translate(ev.key_code) = config.repeat.repeat_toggle_key
    /\ ev.state = "Pressed"

\* A decision that forgets the toggle flag.
unnamed_or_ignoring_toggle(ev) == reverse_translate(ev.key_code) = None

\* The events handle_key_event decides false without asking the cache: a key
\* code with no name, and every key while repetition is switched off.
unnamed_or_disabled(ev) ==
    reverse_translate(ev.key_code) = None \/ ~repetition_enabled

CacheKeyOf(ev, th, ph) ==
    [ key_name_hash |-> hash_str(KeyNameChars(reverse_translate(ev.key_code))),
      modifiers_bits |-> modifiers_to_bits(to_vec(ev.modifiers)),
      title_hash |-> th,
      patterns_hash |-> ph ]

KeyRepeater_handle_key_event(ev, limit) ==
    /\ pc["key"] = "idle"
    /\ nEvents < limit
    /\ nEvents' = nEvents + 1
    /\ IF is_toggle_press(ev)
       THEN /\ repetition_enabled' = ~repetition_enabled
            /\ Goto("key", IF repetition_enabled' THEN "toggle_send" ELSE "stop_len")
            /\ event' = ev
            /\ UNCHANGED << should_repeat, cache_key, handle >>
       ELSE /\ repetition_enabled' = repetition_enabled
            /\ IF unnamed_or_disabled(ev)
               THEN Decided(ev, FALSE) /\ cache_key' = cache_key
               ELSE LET ck == CacheKeyOf(ev, title_hash, patterns_hash)
                    IN  IF ck \in DOMAIN decision_cache
                        THEN Decided(ev, decision_cache[ck]) /\ cache_key' = ck
                        ELSE /\ Goto("key", "cache_fill")
                             /\ event' = ev
                             /\ cache_key' = ck
                             /\ UNCHANGED << should_repeat, handle >>
    /\ UNCHANGED << detectorVars, mainVars, deviceVars, testVars, config,
                    active_repeaters, decision_cache, contextVars, tasks,
                    release_events, winLocals, stopGhost >>
    /\ no_write

\* handle_key_event as the key-event loop calls it for an event whose
\* modifiers are already attached: the listener's own state is not touched.
handle_key_event(ev, limit) ==
    /\ KeyRepeater_handle_key_event(ev, limit)
    /\ UNCHANGED listenerVars

insert(map, k, v) == [x \in DOMAIN map \cup {k} |-> IF x = k THEN v ELSE map[x]]

remove(map, k) == [x \in DOMAIN map \ {k} |-> map[x]]

\* A miss path that computes the decision and forgets to store it.
should_repeat_uncached ==
    /\ pc["key"] = "cache_fill"
    /\ Decided(event, should_repeat_key(config, reverse_translate(event.key_code),
                                        to_vec(event.modifiers), title_lower))
    /\ UNCHANGED << outerVars, config, repetition_enabled, active_repeaters, decision_cache,
                    contextVars, cache_key, tasks, release_events, winLocals, nEvents,
                    stopGhost >>
    /\ no_write

\* A miss path that resets the window context after its check.
should_repeat_cached_fill_resetting ==
    /\ pc["key"] = "cache_fill"
    /\ LET result == should_repeat_key(config, reverse_translate(event.key_code),
                                       to_vec(event.modifiers), title_lower)
       IN  /\ decision_cache' = insert(decision_cache, cache_key, result)
           /\ Decided(event, result)
           /\ cache_key' = cache_key
    /\ title_hash' = 0
    /\ title_lower' = <<>>
    /\ UNCHANGED << outerVars, config, repetition_enabled, active_repeaters, patterns_hash,
                    tasks, release_events, winLocals, nEvents, stopGhost >>
    /\ no_write

\* The miss path of should_repeat_cached: get_title_lower, the full check, insert.
should_repeat_cached_fill ==
    /\ pc["key"] = "cache_fill"
    /\ LET result == should_repeat_key(config, reverse_translate(event.key_code),
                                       to_vec(event.modifiers), title_lower)
       IN  /\ decision_cache' = insert(decision_cache, cache_key, result)
           /\ Decided(event, result)
           /\ cache_key' = cache_key
    /\ UNCHANGED << outerVars, config, repetition_enabled, active_repeaters, contextVars,
                    tasks, release_events, winLocals, nEvents, stopGhost >>
    /\ no_write

\* A hardware repeat of a key the scheduler repeats itself is dropped.
ignore_repeat ==
    /\ pc["key"] = "ignore"
    /\ KeyReturn
    /\ UNCHANGED << outerVars, repeaterVars, contextVars, tasks, release_events, winLocals, nEvents,
                    stopGhost >>
    /\ no_write

\* A passthrough that forgets the state of the event it forwards.
forward_as_press ==
    /\ pc["key"] = "forward"
    /\ send_event(VirtualKeyEvent(event.key_code, "Pressed", "key", 0))
    /\ KeyReturn
    /\ UNCHANGED << outerVars, repeaterVars, contextVars, tasks, release_events, winLocals, nEvents, stopGhost >>

forward_event ==
    /\ pc["key"] = "forward"
    /\ send_event(VirtualKeyEvent(event.key_code, event.state, "key", 0))
    /\ KeyReturn
    /\ UNCHANGED << outerVars, repeaterVars, contextVars, tasks, release_events, winLocals, nEvents, stopGhost >>

StopForget(p) ==
    /\ stop_keys' = [stop_keys EXCEPT ![p] = {}]
    /\ stop_sent' = [stop_sent EXCEPT ![p] = <<>>]

toggle_send ==
    /\ pc["key"] = "toggle_send"
    /\ send_event(VirtualKeyEvent(event.key_code, "Pressed", "key", 0))
    /\ KeyReturn
    /\ StopForget("key")
    /\ UNCHANGED << outerVars, repeaterVars, contextVars, tasks, release_events, winLocals, nEvents >>

(***************************************************************************)
(* handle_key_press and start_repeater.                                    *)
(***************************************************************************)
contains_key(h) == h \in DOMAIN active_repeaters

handle_key_press_send ==
    /\ pc["key"] = "press_send"
    /\ send_event(VirtualKeyEvent(event.key_code, "Pressed", "key", 0))
    /\ Goto("key", "press_check")
    /\ UNCHANGED << outerVars, repeaterVars, contextVars, tasks, keyLocals, release_events,
                    winLocals, nEvents, stopGhost >>

\* A future tokio has spawned: parked (not being polled: not started yet, or in
\* its sleep), or being polled, about to send its press or its release.
Future(key_code, modifiers) ==
    [pc |-> "parked", aborted |-> FALSE, by |-> None,
     key_code |-> key_code, modifiers |-> modifiers]

\* A cancelled task: its future has been dropped, with what it had captured.
Cancelled ==
    [pc |-> "cancelled", aborted |-> TRUE, by |-> None, key_code |-> 0, modifiers |-> 0]

\* A handle_key_press that starts a timer whether or not the key has one.
handle_key_press_check_restarting ==
    /\ pc["key"] = "press_check"
    /\ tasks' = Append(tasks, Future(event.key_code, event.modifiers))
    /\ handle' = Len(tasks) + 1
    /\ Goto("key", "insert")
    /\ UNCHANGED << event, should_repeat, cache_key >>
    /\ UNCHANGED << outerVars, repeaterVars, contextVars, release_events, winLocals, nEvents, stopGhost >>
    /\ no_write

\* The registry check of handle_key_press and, with no task for the key,
\* start_repeater up to tokio::spawn.
handle_key_press_check ==
    /\ pc["key"] = "press_check"
    /\ IF contains_key(key_only_hash(event))
       THEN /\ KeyReturn
            /\ tasks' = tasks
       ELSE /\ tasks' = Append(tasks, Future(event.key_code, event.modifiers))
            /\ handle' = Len(tasks) + 1
            /\ Goto("key", "insert")
            /\ UNCHANGED << event, should_repeat, cache_key >>
    /\ UNCHANGED << outerVars, repeaterVars, contextVars, release_events, winLocals, nEvents, stopGhost >>
    /\ no_write

RepeaterTask(h, key_code, modifiers) ==
    [handle |-> h, key_code |-> key_code, modifiers |-> modifiers]

start_repeater_insert ==
    /\ pc["key"] = "insert"
    /\ active_repeaters' =
           insert(active_repeaters, key_only_hash(event),
                  RepeaterTask(handle, event.key_code, event.modifiers))
    /\ KeyReturn
    /\ UNCHANGED << outerVars, config, repetition_enabled, decision_cache, contextVars,
                    tasks, release_events, winLocals, nEvents, stopGhost >>
    /\ no_write

(***************************************************************************)
(* handle_key_release and stop_repeater.  JoinHandle::abort only marks the *)
(* task: a parked task is cancelled at once, a task that is being polled   *)
(* runs on to its next await.                                              *)
(***************************************************************************)
\* An abort that drops the future wherever it is.
abort_at_once(ts, hs, caller) ==
    [t \in DOMAIN ts |-> IF t \notin hs \/ ts[t].aborted THEN ts[t] ELSE Cancelled]

abort(ts, hs, caller) ==
    [t \in DOMAIN ts |->
        IF t \notin hs \/ ts[t].aborted THEN ts[t]
        ELSE IF ts[t].pc = "parked" THEN Cancelled
        ELSE [ts[t] EXCEPT !.aborted = TRUE, !.by = caller]]

\* contains_key and, with a task for the key, stop_repeater: remove, then abort.
stop_repeater ==
    /\ pc["key"] = "release_stop"
    /\ LET h == key_only_hash(event)
       IN  IF contains_key(h)
           THEN /\ active_repeaters' = remove(active_repeaters, h)
                /\ tasks' = abort(tasks, {active_repeaters[h].handle}, "stop_repeater")
                /\ handle' = active_repeaters[h].handle
           ELSE UNCHANGED << active_repeaters, tasks, handle >>
    /\ Goto("key", "release_send")
    /\ UNCHANGED << outerVars, config, repetition_enabled, decision_cache, contextVars,
                    event, should_repeat, cache_key, release_events, winLocals, nEvents, stopGhost >>
    /\ no_write

handle_key_release_send ==
    /\ pc["key"] = "release_send"
    /\ send_event(VirtualKeyEvent(event.key_code, "Released", "key", 0))
    /\ KeyReturn
    /\ UNCHANGED << outerVars, repeaterVars, contextVars, tasks, release_events, winLocals, nEvents, stopGhost >>

(***************************************************************************)
(* stop_all_repeaters_gracefully, called by the key-event loop (toggle     *)
(* off) and by the detection loop (window change).                         *)
(***************************************************************************)
StopReturn(p) ==
    IF p = "key" THEN "toggle_send"
    ELSE IF p = "win" THEN "window_record"
    ELSE "release_all_keys"

stop_all_len(p) ==
    /\ pc[p] = "stop_len"
    /\ Goto(p, IF Cardinality(DOMAIN active_repeaters) = 0
               THEN StopReturn(p) ELSE "stop_collect")
    /\ stop_keys' = [stop_keys EXCEPT ![p] =
                         {active_repeaters[h].key_code : h \in DOMAIN active_repeaters}]
    /\ stop_sent' = [stop_sent EXCEPT ![p] = <<>>]
    /\ UNCHANGED << outerVars, repeaterVars, contextVars, tasks, keyLocals, release_events,
                    winLocals, nEvents >>
    /\ no_write

\* The sequences that list every entry of the map once, in some iteration order.
Iterations(map) ==
    { order \in [1..Cardinality(DOMAIN map) -> DOMAIN map] :
        \A i, j \in DOMAIN order : i # j => order[i] # order[j] }

stop_all_collect(p) ==
    /\ pc[p] = "stop_collect"
    /\ \E order \in Iterations(active_repeaters) :
          release_events' =
              [release_events EXCEPT ![p] =
                  [i \in DOMAIN order |->
                      VirtualKeyEvent(active_repeaters[order[i]].key_code,
                                      "Released", "stop", 0)]]
    /\ Goto(p, IF DOMAIN active_repeaters = {} THEN "stop_abort" ELSE "stop_send")
    /\ UNCHANGED << outerVars, repeaterVars, contextVars, tasks, keyLocals, winLocals, nEvents, stopGhost >>
    /\ no_write

stop_all_send(p) ==
    /\ pc[p] = "stop_send"
    /\ send_event(Head(release_events[p]))
    /\ release_events' = [release_events EXCEPT ![p] = Tail(release_events[p])]
    /\ Goto(p, IF Len(release_events[p]) = 1 THEN "stop_abort" ELSE "stop_send")
    /\ stop_sent' = [stop_sent EXCEPT ![p] = Append(@, Head(release_events[p]).key_code)]
    /\ UNCHANGED << outerVars, repeaterVars, contextVars, tasks, keyLocals, winLocals, nEvents,
                    stop_keys >>

stop_all_abort(p) ==
    /\ pc[p] = "stop_abort"
    /\ tasks' = abort(tasks, {active_repeaters[h].handle : h \in DOMAIN active_repeaters},
                     "stop_all")
    /\ Goto(p, "stop_clear")
    /\ UNCHANGED << outerVars, repeaterVars, contextVars, keyLocals, release_events,
                    winLocals, nEvents, stopGhost >>
    /\ no_write

\* A graceful stop that aborts the timers and forgets to clear the registry.
stop_all_without_clear(p) ==
    /\ pc[p] = "stop_clear"
    /\ Goto(p, StopReturn(p))
    /\ UNCHANGED << outerVars, repeaterVars, contextVars, tasks, keyLocals, release_events,
                    winLocals, nEvents, stopGhost >>
    /\ no_write

stop_all_clear(p) ==
    /\ pc[p] = "stop_clear"
    /\ active_repeaters' = EmptyMap
    /\ Goto(p, StopReturn(p))
    /\ UNCHANGED << outerVars, config, repetition_enabled, decision_cache, contextVars,
                    tasks, keyLocals, release_events, winLocals, nEvents, stopGhost >>
    /\ no_write

(***************************************************************************)
(* The detection loop: a successful query whose window differs from        *)
(* current_window is delivered by send_window_event to                     *)
(* handle_window_event (update_title, then the graceful stop).             *)
(***************************************************************************)
\* A comparison that takes every answer for a change of window.
is_window_changed_always(new_window) == new_window # NoWindow

is_window_changed(new_window) ==
    IF current_window = NoWindow THEN TRUE
    ELSE current_window.title # new_window.title
         \/ current_window.class # new_window.class

\* A delivery that records the new window before the scheduler has seen it.
send_window_event_recording_first(w) ==
    /\ pc["win"] = "idle"
    /\ is_window_changed(w)
    /\ window' = w
    /\ current_window' = w
    /\ tasks_before' = Len(tasks)
    /\ Goto("win", "title_swap")
    /\ UNCHANGED << outerVars, repeaterVars, contextVars, tasks, keyLocals, release_events,
                    nEvents, stopGhost >>
    /\ no_write

send_window_event(w) ==
    /\ pc["win"] = "idle"
    /\ is_window_changed(w)
    /\ window' = w
    /\ tasks_before' = Len(tasks)
    /\ Goto("win", "title_swap")
    /\ UNCHANGED << outerVars, repeaterVars, contextVars, tasks, keyLocals, release_events,
                    current_window, nEvents, stopGhost >>
    /\ no_write

\* update_title: the swap of the hash, and (next) the write of the title.
update_title_swap ==
    /\ pc["win"] = "title_swap"
    /\ LET new_hash == hash_str(window.title)
       IN  /\ title_hash' = new_hash
           /\ Goto("win", IF title_hash # new_hash THEN "title_write" ELSE "stop_len")
    /\ UNCHANGED << outerVars, repeaterVars, title_lower, patterns_hash, tasks, keyLocals,
                    release_events, winLocals, nEvents, stopGhost >>
    /\ no_write

update_title_write ==
    /\ pc["win"] = "title_write"
    /\ title_lower' = to_lowercase(window.title)
    /\ Goto("win", "stop_len")
    /\ UNCHANGED << outerVars, repeaterVars, title_hash, patterns_hash, tasks, keyLocals,
                    release_events, winLocals, nEvents, stopGhost >>
    /\ no_write

send_window_event_record ==
    /\ pc["win"] = "window_record"
    /\ current_window' = window
    /\ window' = NoWindow
    /\ tasks_before' = 0
    /\ Goto("win", "idle")
    /\ StopForget("win")
    /\ UNCHANGED << outerVars, repeaterVars, contextVars, tasks, keyLocals, release_events, nEvents >>
    /\ no_write

(***************************************************************************)
(* repeater_task: press, release, sleep, for ever.  A task is polled only  *)
(* while it is not cancelled; one that was aborted while being polled is   *)
(* cancelled when it reaches its sleep.                                    *)
(***************************************************************************)
repeater_task_poll(t) ==
    /\ tasks[t].pc = "parked"
    /\ tasks' = [tasks EXCEPT ![t].pc = "press"]
    /\ UNCHANGED << outerVars, repeaterVars, contextVars, pc, keyLocals, release_events,
                    winLocals, nEvents, stopGhost >>
    /\ no_write

repeater_task_press(t) ==
    /\ tasks[t].pc = "press"
    /\ send_event(VirtualKeyEvent(tasks[t].key_code, "Pressed", "timer", t))
    /\ tasks' = [tasks EXCEPT ![t].pc = "release"]
    /\ UNCHANGED << outerVars, repeaterVars, contextVars, pc, keyLocals, release_events,
                    winLocals, nEvents, stopGhost >>

repeater_task_release(t) ==
    /\ tasks[t].pc = "release"
    /\ send_event(VirtualKeyEvent(tasks[t].key_code, "Released", "timer", t))
    /\ tasks' = [tasks EXCEPT ![t] =
                    IF tasks[t].aborted THEN Cancelled ELSE [@ EXCEPT !.pc = "parked"]]
    /\ UNCHANGED << outerVars, repeaterVars, contextVars, pc, keyLocals, release_events,
                    winLocals, nEvents, stopGhost >>

(***************************************************************************)
(* The system: the key-event loop, the detection loop and the timers.      *)
(***************************************************************************)
KeyLoop(limit) ==
    \/ \E ev \in KeyEvents : handle_key_event(ev, limit)
    \/ should_repeat_cached_fill
    \/ ignore_repeat
    \/ forward_event
    \/ toggle_send
    \/ handle_key_press_send
    \/ handle_key_press_check
    \/ start_repeater_insert
    \/ stop_repeater
    \/ handle_key_release_send

StopAll(p) ==
    \/ stop_all_len(p)
    \/ stop_all_collect(p)
    \/ stop_all_send(p)
    \/ stop_all_abort(p)
    \/ stop_all_clear(p)

DetectionLoop ==
    \/ \E w \in Windows : send_window_event(w)
    \/ update_title_swap
    \/ update_title_write
    \/ send_window_event_record

Timers ==
    \E t \in DOMAIN tasks :
        \/ repeater_task_poll(t)
        \/ repeater_task_press(t)
        \/ repeater_task_release(t)

\* main spawns the two loops on the multi-threaded runtime: their steps and the
\* timers' interleave freely.
Next ==
    \/ KeyLoop(MaxEvents)
    \/ StopAll("key")
    \/ DetectionLoop
    \/ StopAll("win")
    \/ Timers

Spec == Init /\ [][Next]_vars

\* The same system, followed for one more key event.
NextLong ==
    \/ KeyLoop(MaxEvents + 1)
    \/ StopAll("key")
    \/ DetectionLoop
    \/ StopAll("win")
    \/ Timers

SpecLong == Init /\ [][NextLong]_vars

\* The scheduler with one caller at a time: a handler of one loop runs only while
\* the other loop is between handlers.  The timers still run on their own.
NextSeq ==
    \/ pc["win"] = "idle" /\ KeyLoop(MaxEvents)
    \/ pc["win"] = "idle" /\ StopAll("key")
    \/ pc["key"] = "idle" /\ DetectionLoop
    \/ pc["key"] = "idle" /\ StopAll("win")
    \/ Timers

SpecSeq == Init /\ [][NextSeq]_vars

\* A keyboard on which j is held down: j in every state, with and without ctrl,
\* and the toggle key pressed.
HeldKeyEvents ==
    [key_code : {KEY_J}, state : KeyStates, modifiers : EventModifiers]
    \cup { [key_code |-> KEY_F12, state |-> "Pressed", modifiers |-> 0] }

NextHeld ==
    \/ \E ev \in HeldKeyEvents : handle_key_event(ev, MaxEvents)
    \/ should_repeat_cached_fill
    \/ ignore_repeat
    \/ forward_event
    \/ toggle_send
    \/ handle_key_press_send
    \/ handle_key_press_check
    \/ start_repeater_insert
    \/ stop_repeater
    \/ handle_key_release_send
    \/ StopAll("key")
    \/ DetectionLoop
    \/ StopAll("win")
    \/ Timers

SpecHeld == Init /\ [][NextHeld]_vars

(***************************************************************************)
(* A device whose writes can fail.  VirtualDevice::send_event returns Err  *)
(* when the key write fails: nothing reaches the device.  Every handler    *)
(* logs the error and goes on as after a successful write; repeater_task   *)
(* breaks out of its loop and its future completes.                        *)
(***************************************************************************)
send_event_fails == sink' = NoWrite

forward_event_fails ==
    /\ pc["key"] = "forward"
    /\ send_event_fails
    /\ KeyReturn
    /\ UNCHANGED << outerVars, repeaterVars, contextVars, tasks, release_events, winLocals, nEvents, stopGhost >>

toggle_send_fails ==
    /\ pc["key"] = "toggle_send"
    /\ send_event_fails
    /\ KeyReturn
    /\ StopForget("key")
    /\ UNCHANGED << outerVars, repeaterVars, contextVars, tasks, release_events, winLocals, nEvents >>

handle_key_press_send_fails ==
    /\ pc["key"] = "press_send"
    /\ send_event_fails
    /\ Goto("key", "press_check")
    /\ UNCHANGED << outerVars, repeaterVars, contextVars, tasks, keyLocals, release_events,
                    winLocals, nEvents, stopGhost >>

handle_key_release_send_fails ==
    /\ pc["key"] = "release_send"
    /\ send_event_fails
    /\ KeyReturn
    /\ UNCHANGED << outerVars, repeaterVars, contextVars, tasks, release_events, winLocals, nEvents, stopGhost >>

stop_all_send_fails(p) ==
    /\ pc[p] = "stop_send"
    /\ send_event_fails
    /\ release_events' = [release_events EXCEPT ![p] = Tail(release_events[p])]
    /\ Goto(p, IF Len(release_events[p]) = 1 THEN "stop_abort" ELSE "stop_send")
    /\ UNCHANGED << outerVars, repeaterVars, contextVars, tasks, keyLocals, winLocals, nEvents,
                    stopGhost >>

\* A timer whose failed write ends every timer.
repeater_task_fails_all(t) ==
    /\ tasks[t].pc = "press"
    /\ send_event_fails
    /\ tasks' = [u \in DOMAIN tasks |-> [tasks[u] EXCEPT !.pc = "finished"]]
    /\ UNCHANGED << outerVars, repeaterVars, contextVars, pc, keyLocals, release_events,
                    winLocals, nEvents, stopGhost >>

\* The press of a tap fails: break, and the task's future completes.
repeater_task_press_fails(t) ==
    /\ tasks[t].pc = "press"
    /\ send_event_fails
    /\ tasks' = [tasks EXCEPT ![t].pc = "finished"]
    /\ UNCHANGED << outerVars, repeaterVars, contextVars, pc, keyLocals, release_events,
                    winLocals, nEvents, stopGhost >>

\* The release of a tap fails: break, and the task's future completes.
repeater_task_release_fails(t) ==
    /\ tasks[t].pc = "release"
    /\ send_event_fails
    /\ tasks' = [tasks EXCEPT ![t].pc = "finished"]
    /\ UNCHANGED << outerVars, repeaterVars, contextVars, pc, keyLocals, release_events,
                    winLocals, nEvents, stopGhost >>

\* A keyboard with two mapped keys, a rejected combination, a hardware repeat
\* and the toggle key.
FailKeyEvents ==
    { [key_code |-> KEY_SPACE, state |-> "Pressed", modifiers |-> 0],
      [key_code |-> KEY_SPACE, state |-> "Repeat", modifiers |-> 0],
      [key_code |-> KEY_J, state |-> "Pressed", modifiers |-> 0],
      [key_code |-> KEY_J, state |-> "Released", modifiers |-> 0],
      [key_code |-> KEY_J, state |-> "Pressed", modifiers |-> CTRL],
      [key_code |-> KEY_F12, state |-> "Pressed", modifiers |-> 0] }

InitFail == New(ConfigAnyWindow)

FailingTimers ==
    \E t \in DOMAIN tasks :
        \/ repeater_task_press_fails(t)
        \/ repeater_task_release_fails(t)

NextFail ==
    \/ \E ev \in FailKeyEvents : handle_key_event(ev, MaxEvents)
    \/ should_repeat_cached_fill
    \/ ignore_repeat
    \/ forward_event
    \/ forward_event_fails
    \/ toggle_send
    \/ toggle_send_fails
    \/ handle_key_press_send
    \/ handle_key_press_send_fails
    \/ handle_key_press_check
    \/ start_repeater_insert
    \/ stop_repeater
    \/ handle_key_release_send
    \/ handle_key_release_send_fails
    \/ StopAll("key")
    \/ stop_all_send_fails("key")
    \/ DetectionLoop
    \/ StopAll("win")
    \/ stop_all_send_fails("win")
    \/ Timers
    \/ FailingTimers

SpecFail == InitFail /\ [][NextFail]_vars

\* The same system started with a configuration that the windows of the model
\* match, or with one that they never match.
InitBrowser == \E cfg \in {ConfigNvim, ConfigWeb} : New(cfg)

SpecBrowser == InitBrowser /\ [][Next]_vars

(***************************************************************************)
(* One task per key.                                                       *)
(***************************************************************************)
RegisteredFor(k) ==
    {h \in DOMAIN active_repeaters : active_repeaters[h].key_code = k}

\* The timers of one key that are running: spawned, and nobody has aborted them.
RunningTimers(k) ==
    {t \in DOMAIN tasks : tasks[t].key_code = k /\ ~tasks[t].aborted}

\* C1: in every reachable state the registry holds at most one RepeaterTask per
\* key code, and however often a key has been pressed, with whatever modifiers,
\* at most one timer is running for it.
C1_OneTaskPerKey ==
    \A k \in KeyCodes :
        /\ Cardinality(RegisteredFor(k)) <= 1
        /\ Cardinality(RunningTimers(k)) <= 1

(***************************************************************************)
(* Release, and the graceful stop.                                         *)
(***************************************************************************)
KeyReturns == pc["key"] # "idle" /\ pc'["key"] = "idle"

\* C2: when handle_key_event returns from a Released event of a key, whatever
\* modifiers the release carries, the registry has no entry for that key and no
\* timer of that key is left running.
C2_ReleaseStopsKey ==
    [][(KeyReturns /\ event.state = "Released")
        => LET k == event.key_code
           IN  /\ \A h \in DOMAIN active_repeaters' : active_repeaters'[h].key_code # k
               /\ \A t \in DOMAIN tasks' : tasks'[t].key_code = k => tasks'[t].aborted
       ]_vars

\* C3: once handle_key_release has returned, the timer it stopped emits no
\* further synthetic press: a press written by a timer that stop_repeater has
\* aborted is written while that release is still being handled.
C3_NoPressAfterRelease ==
    (sink.src = "timer" /\ sink.state = "Pressed" /\ tasks[sink.task].by = "stop_repeater")
        => (pc["key"] = "release_send" /\ handle = sink.task)

StopReturned(p) ==
    /\ pc[p] = StopReturn(p)
    /\ p = "key" => ~repetition_enabled

\* C4: with one caller at a time, a call of stop_all_repeaters_gracefully that
\* found N tasks has, when it returns, sent exactly N releases, one for each
\* registered key, aborted every timer and left the registry empty; a call that
\* finds no task (as a second call does) sends nothing and changes nothing.
C4_GracefulStop ==
    \A p \in Procs :
        StopReturned(p) =>
            /\ Len(stop_sent[p]) = Cardinality(stop_keys[p])
            /\ Range(stop_sent[p]) = stop_keys[p]
            /\ active_repeaters = EmptyMap
            /\ \A t \in DOMAIN tasks : tasks[t].aborted

C4_Witness ==
    \E p \in Procs : StopReturned(p) /\ Cardinality(stop_keys[p]) = 2

\* C5: when handle_window_event returns, every timer that had been started
\* before the call began is stopped and the registry is empty, whatever the
\* key-event loop does meanwhile.
C5_WindowChangeStopsAll ==
    [][(pc["win"] # "window_record" /\ pc'["win"] = "window_record")
        => /\ active_repeaters' = EmptyMap
           /\ \A t \in 1..tasks_before : tasks'[t].aborted
       ]_vars

(***************************************************************************)
(* The toggle key.                                                         *)
(***************************************************************************)
StopPcs == {"stop_len", "stop_collect", "stop_send", "stop_abort", "stop_clear"}

\* A Pressed event of the configured toggle key.
ToggleKeyPressed(ev) ==
    /\ ev.state = "Pressed"
    /\ reverse_translate(ev.key_code) = config.repeat.repeat_toggle_key

KeyEnters == pc["key"] = "idle" /\ pc'["key"] # "idle"

EngineSays(ev, title) ==
    should_repeat_key(config, reverse_translate(ev.key_code), to_vec(ev.modifiers), title)

\* C6: once a toggle press has switched repetition off and its graceful stop is
\* over, the registry is empty, and until repetition is switched on again every
\* Pressed event, even one the MatchEngine would repeat, is forwarded to the
\* sink as a plain press and creates no RepeaterTask.
C6_DisabledForwards ==
    /\ []((~repetition_enabled /\ pc["key"] \notin StopPcs)
            => /\ active_repeaters = EmptyMap
               /\ pc["key"] \in {"idle", "forward", "toggle_send"}
               /\ pc["key"] = "forward" => ~should_repeat)
    /\ [][(~repetition_enabled /\ KeyReturns /\ event.state = "Pressed"
             /\ ~ToggleKeyPressed(event))
            => /\ sink' = VirtualKeyEvent(event.key_code, "Pressed", "key", 0)
               /\ Len(tasks') = Len(tasks)
               /\ active_repeaters' = EmptyMap
          ]_vars

C6_Witness ==
    /\ ~repetition_enabled
    /\ pc["key"] = "forward"
    /\ event.state = "Pressed"
    /\ EngineSays(event, title_lower)

\* C7: a Pressed event of the toggle key, and no other event, flips
\* repetition_enabled (so the flag is on after n toggle presses iff n is even);
\* its handler sends exactly one press of the toggle key, when it returns,
\* and neither asks the cache or the MatchEngine nor creates a RepeaterTask,
\* even though the toggle key is mapped.
C7_ToggleFlips ==
    /\ [](ToggleKeyPressed(event)
            => /\ pc["key"] \in StopPcs \cup {"toggle_send"}
               /\ cache_key = NoCacheKey
               /\ ~should_repeat)
    /\ [][/\ KeyEnters => ((repetition_enabled' # repetition_enabled)
                             <=> ToggleKeyPressed(event'))
          /\ ~KeyEnters => repetition_enabled' = repetition_enabled
          /\ ToggleKeyPressed(event)
                => /\ (sink'.src = "key") <=> KeyReturns
                   /\ KeyReturns
                        => sink' = VirtualKeyEvent(event.key_code, "Pressed", "key", 0)
                   /\ Len(tasks') = Len(tasks)
                   /\ DOMAIN active_repeaters' \subseteq DOMAIN active_repeaters
                   /\ decision_cache' = decision_cache
          ]_vars

C7_Witness ==
    /\ ToggleKeyPressed(event)
    /\ pc["key"] = "toggle_send"
    /\ repetition_enabled
    /\ reverse_translate(event.key_code) \in key_set(config)

(***************************************************************************)
(* The decision cache.                                                     *)
(***************************************************************************)
KeyOfHash(h) ==
    CHOOSE k \in KeyCodes : hash_str(KeyNameChars(reverse_translate(k))) = h

\* The lower-cased title a title hash denotes: the empty title of a new
\* context, or the title of the window that hashes to it.
TitleOfHash(h) ==
    IF h = 0 THEN <<>>
    ELSE to_lowercase((CHOOSE w \in Windows : hash_str(w.title) = h).title)

\* The step in which should_repeat_cached returns: from the lookup on a hit,
\* from the full check on a miss.
CacheReturns ==
    /\ pc["key"] \in {"idle", "cache_fill"}
    /\ pc'["key"] \in {"press_send", "release_stop", "ignore", "forward"}
    /\ cache_key' # NoCacheKey

\* C8: after update_title has completed with a title of a different hash,
\* should_repeat_cached returns the MatchEngine's decision for that title,
\* never a value cached under another title.
C8_FreshAfterUpdate ==
    [][(CacheReturns /\ title_hash # 0 /\ pc["win"] # "title_write")
        => should_repeat' = EngineSays(event', title_lower)
      ]_vars

\* C9: the title hash and the lower-cased title are never seen torn, so every
\* cache entry holds the MatchEngine's decision for the title its title hash
\* denotes.
C9_CacheMatchesTitle ==
    \A ck \in DOMAIN decision_cache :
        decision_cache[ck] =
            should_repeat_key(config, reverse_translate(KeyOfHash(ck.key_name_hash)),
                              to_vec(ck.modifiers_bits), TitleOfHash(ck.title_hash))

\* C10: a cache entry never changes, and should_repeat_cached returns the value
\* the cache holds for its key, so two calls with the same key name, modifiers,
\* title hash and patterns hash return the same boolean; a hit returns at the
\* lookup, without the full check, and inserts nothing; only a miss goes on to
\* the full check, and it inserts exactly one entry.
C10_CacheIdempotent ==
    [][/\ \A ck \in DOMAIN decision_cache :
             ck \in DOMAIN decision_cache' /\ decision_cache'[ck] = decision_cache[ck]
       /\ CacheReturns
            => /\ cache_key' \in DOMAIN decision_cache'
               /\ should_repeat' = decision_cache'[cache_key']
               /\ pc["key"] = "idle"
                    => cache_key' \in DOMAIN decision_cache
                       /\ decision_cache' = decision_cache
               /\ pc["key"] = "cache_fill"
                    => cache_key \notin DOMAIN decision_cache
                       /\ DOMAIN decision_cache' = DOMAIN decision_cache \cup {cache_key}
       /\ (KeyEnters /\ pc'["key"] = "cache_fill")
            => cache_key' \notin DOMAIN decision_cache
      ]_vars

\* The second of two calls with one cache key, answered from the one entry.
C10_Witness ==
    /\ nEvents = 2
    /\ repetition_enabled
    /\ pc["key"] \in {"press_send", "release_stop", "ignore", "forward"}
    /\ cache_key # NoCacheKey
    /\ DOMAIN decision_cache = {cache_key}

(***************************************************************************)
(* Config::should_repeat_key on its own: a configuration, a key, a set of  *)
(* held modifiers and a window title are drawn, and the function is        *)
(* applied to them, as the tests of config.rs do.                          *)
(***************************************************************************)
MatchConfigs == {ConfigAnyWindow, ConfigNvim, ConfigTwice, ConfigBadModifier}

MatchBits == 0..(CTRL + ALT + SHIFT + SUPER)

MatchTitles ==
    { <<>>, <<"N", "V", "I", "M">>, <<"n", "v", "i", "m">>,
      <<"w", "e", "b">>, <<"v", "i", "m">> }

InitMatch ==
    \E cfg \in MatchConfigs, k \in KeyCodes, bits \in MatchBits, title \in MatchTitles :
        /\ config = cfg
        /\ event = [key_code |-> k, state |-> "Pressed", modifiers |-> bits]
        /\ window = [title |-> title, class |-> "kitty"]
        /\ pc = [p \in Procs |-> IF p = "key" THEN "match" ELSE "idle"]
        /\ should_repeat = FALSE
        /\ repetition_enabled = TRUE
        /\ active_repeaters = EmptyMap
        /\ decision_cache = EmptyMap
        /\ title_hash = 0
        /\ title_lower = <<>>
        /\ patterns_hash = hash_patterns(cfg.window.window_title_patterns)
        /\ tasks = <<>>
        /\ sink = NoWrite
        /\ cache_key = NoCacheKey
        /\ handle = 0
        /\ release_events = [p \in Procs |-> <<>>]
        /\ current_window = NoWindow
        /\ tasks_before = 0
        /\ stop_keys = [p \in Procs |-> {}]
        /\ stop_sent = [p \in Procs |-> <<>>]
        /\ nEvents = 0
        /\ DetectorPolling
        /\ VirtualDeviceNew
        /\ Spawned
        /\ ListenerNew
        /\ modifiers_test = NoTest

MatchKey == reverse_translate(event.key_code)

MatchModifiers == to_vec(event.modifiers)

test_should_repeat_key ==
    /\ pc["key"] = "match"
    /\ should_repeat' = should_repeat_key(config, MatchKey, MatchModifiers, window.title)
    /\ Goto("key", "matched")
    /\ UNCHANGED << outerVars, repeaterVars, contextVars, tasks, event, cache_key, handle,
                    release_events, winLocals, nEvents, stopGhost >>
    /\ no_write

NextMatch == test_should_repeat_key

SpecMatch == InitMatch /\ [][NextMatch]_vars

Matched == pc["key"] = "matched"

\* The rules of the specification, stated on the configuration as written.
HasMapping(cfg, key) == \E i \in 1..Len(cfg.mappings) : cfg.mappings[i].key = key

PatternRule(cfg, title) ==
    \/ cfg.window.window_title_patterns = <<>>
    \/ \E i \in 1..Len(cfg.window.window_title_patterns) :
          contains(to_lowercase(title), to_lowercase(cfg.window.window_title_patterns[i]))

ModifiersAllowed(cfg, key, mods) ==
    \/ mods = <<>>
    \/ \E i \in 1..Len(cfg.mappings) :
          /\ cfg.mappings[i].key = key
          /\ cfg.mappings[i].modifiers # <<>>
          /\ \A m \in Range(mods) : m \in Range(cfg.mappings[i].modifiers)

\* C11: should_repeat_key is true iff the key has a mapping, the window-pattern
\* rule accepts the title, and the held modifiers are none or all lie in the
\* non-empty allowed list of some mapping of the key; for space with [ctrl, alt]
\* that admits {}, {ctrl}, {alt}, {ctrl, alt} and rejects {shift}, {ctrl, shift}.
C11_MatchRule ==
    Matched =>
        /\ should_repeat <=> /\ HasMapping(config, MatchKey)
                              /\ PatternRule(config, window.title)
                              /\ ModifiersAllowed(config, MatchKey, MatchModifiers)
        /\ (config = ConfigAnyWindow /\ MatchKey = "space")
              => (should_repeat <=> event.modifiers \in {0, CTRL, ALT, CTRL + ALT})

C11_Witness ==
    /\ Matched
    /\ config = ConfigAnyWindow
    /\ MatchKey = "space"
    /\ event.modifiers = CTRL + SHIFT
    /\ ~should_repeat

\* C12: for a key and modifiers that match a mapping, should_repeat_key is true
\* for every title when no pattern is configured, and otherwise true iff the
\* lower-cased title contains a lower-cased pattern; the path taken with
\* modifiers held gives the result of the path taken with none.
C12_PatternRule ==
    (Matched /\ HasMapping(config, MatchKey)
             /\ ModifiersAllowed(config, MatchKey, MatchModifiers))
        => LET patterns == config.window.window_title_patterns
           IN  /\ patterns = <<>> => should_repeat
               /\ patterns # <<>>
                    => (should_repeat
                          <=> \E i \in 1..Len(patterns) :
                                 contains(to_lowercase(window.title),
                                          to_lowercase(patterns[i])))
               /\ should_repeat
                    = should_repeat_key(config, MatchKey, <<>>, window.title)

C12_Witness ==
    /\ Matched
    /\ config = ConfigTwice
    /\ window.title = <<"N", "V", "I", "M">>
    /\ MatchModifiers = <<"ctrl">>
    /\ should_repeat

\* C13: in a configuration that passes validation, a key with a mapping whose
\* allowed list is empty is never repeated while a modifier is held, whatever
\* the title, and with no modifier held its decision is the window-pattern
\* rule's.
C13_EmptyListRejectsModifiers ==
    (Matched /\ validate(config)
             /\ \E i \in 1..Len(config.mappings) :
                    config.mappings[i].key = MatchKey
                    /\ config.mappings[i].modifiers = <<>>)
        => /\ MatchModifiers # <<>> => ~should_repeat
           /\ MatchModifiers = <<>>
                => (should_repeat <=> PatternRule(config, window.title))

(***************************************************************************)
(* Passthrough.                                                            *)
(***************************************************************************)
\* The step in which handle_key_event learns its decision.
KeyDecides ==
    /\ pc["key"] \in {"idle", "cache_fill"}
    /\ pc'["key"] \in {"forward", "press_send", "release_stop", "ignore"}

\* The titles the window context can hold never satisfy the pattern rule.
NeverMatching ==
    /\ ~PatternRule(config, <<>>)
    /\ \A w \in Windows : ~PatternRule(config, w.title)

\* C14: when the decision for an event is false, the handler's remaining step
\* forwards exactly that event (same key code, same state) to the sink, returns,
\* and no step of the handler changes the registry; and under a configuration
\* whose patterns no window matches, no timer is ever spawned, no tap reaches the
\* sink and the registry is empty in every state.
C14_Passthrough ==
    /\ [][ /\ (KeyDecides /\ ~should_repeat')
                => (pc'["key"] = "forward" /\ active_repeaters' = active_repeaters
                    /\ sink' = NoWrite)
           /\ (pc["key"] = "forward" /\ pc'["key"] # "forward")
                => /\ pc'["key"] = "idle"
                   /\ sink' = VirtualKeyEvent(event.key_code, event.state, "key", 0)
                   /\ active_repeaters' = active_repeaters ]_vars
    /\ [](NeverMatching
            => /\ tasks = <<>>
               /\ active_repeaters = EmptyMap
               /\ sink.src # "timer")

C14_Witness ==
    /\ NeverMatching
    /\ current_window \in Windows
    /\ nEvents = MaxEvents
    /\ pc["key"] = "idle"
    /\ sink = VirtualKeyEvent(KEY_J, "Released", "key", 0)

\* C15: a hardware Repeat event is never forwarded to the sink while its key
\* has a RepeaterTask in the registry, whatever modifiers the event carries.
C15_RepeatNeverForwarded ==
    (sink.src = "key" /\ sink.state = "Repeat")
        => ~contains_key(hash_u16(sink.key_code))

(***************************************************************************)
(* Order of the original events and the timer.                             *)
(***************************************************************************)
\* C16: a timer is spawned only by a handler that has already sent the original
\* press of the timer's key, so the press reaches the sink before the timer's
\* first tap; when the handler of a Released event sends the original release
\* of a key whose timer it has stopped, that timer is cancelled (it sends
\* nothing any more); and the handler sends exactly one original release, in the
\* step that returns.
C16_PressFirstCancelBeforeRelease ==
    [][ /\ (pc["key"] # "press_check" /\ pc'["key"] = "press_check")
             => sink' = VirtualKeyEvent(event.key_code, "Pressed", "key", 0)
        /\ Len(tasks') > Len(tasks)
             => /\ pc["key"] = "press_check"
                /\ tasks'[Len(tasks')].key_code = event.key_code
                /\ tasks'[Len(tasks')].pc = "parked"
        /\ (pc["key"] # "release_send" /\ pc'["key"] = "release_send")
             => sink' = NoWrite
        /\ (pc["key"] = "release_send" /\ pc'["key"] # "release_send")
             => /\ sink' = VirtualKeyEvent(event.key_code, "Released", "key", 0)
                /\ pc'["key"] = "idle"
                /\ handle # 0 => tasks[handle].pc = "cancelled" ]_vars

(***************************************************************************)
(* Creation of RepeaterTasks.                                              *)
(***************************************************************************)
\* The step puts a new or a different RepeaterTask into the registry.
Inserts ==
    \E h \in DOMAIN active_repeaters' :
        h \notin DOMAIN active_repeaters \/ active_repeaters'[h] # active_repeaters[h]

\* C17: a step inserts a RepeaterTask only as part of the key loop's handling of
\* a Pressed event that is not the toggle key's, whose decision is true, while
\* repetition is enabled and the registry has no task for the event's key; the
\* inserted task is that key's.  No step of a Released, Repeat, toggle or window
\* handler inserts.
C17_InsertOnlyOnPress ==
    [][ Inserts
          => /\ event.state = "Pressed"
             /\ ~ToggleKeyPressed(event)
             /\ should_repeat
             /\ repetition_enabled
             /\ ~contains_key(hash_u16(event.key_code))
             /\ DOMAIN active_repeaters'
                  = DOMAIN active_repeaters \cup {hash_u16(event.key_code)}
             /\ active_repeaters'[hash_u16(event.key_code)].key_code = event.key_code
             /\ pc["key"] # "idle" /\ pc'["key"] = "idle"
             /\ pc'["win"] = pc["win"] ]_vars

C17_Witness ==
    /\ contains_key(hash_u16(KEY_J))
    /\ contains_key(hash_u16(KEY_SPACE))
    /\ active_repeaters[hash_u16(KEY_SPACE)].handle = 2
    /\ pc["key"] = "idle"
    /\ current_window \in Windows

(***************************************************************************)
(* Failing writes.                                                         *)
(***************************************************************************)
\* The step in which timer t stops because a write of its tap failed.
TimerFails(t) ==
    /\ t \in DOMAIN tasks
    /\ tasks[t].pc \in {"press", "release"}
    /\ tasks'[t].pc = "finished"

KeyLabels ==
    {"idle", "cache_fill", "ignore", "forward", "toggle_send", "press_send",
     "press_check", "insert", "release_stop", "release_send"} \cup StopPcs

\* C18: the step in which a timer stops on a failed write changes that timer
\* only: every other timer, the registry and both loops are as they were, so the
\* other keys' timers go on tapping; and the key loop is always at a point of
\* its handler or ready for the next event, never stopped by an error.
C18_FailureStopsOneTimer ==
    /\ [][ \A t \in DOMAIN tasks :
              TimerFails(t)
                => /\ \A u \in DOMAIN tasks \ {t} : tasks'[u] = tasks[u]
                   /\ DOMAIN tasks' = DOMAIN tasks
                   /\ active_repeaters' = active_repeaters
                   /\ pc' = pc
                   /\ repetition_enabled' = repetition_enabled ]_vars
    /\ [](pc["key"] \in KeyLabels)
    /\ []((pc["key"] = "idle" /\ nEvents < MaxEvents)
             => ENABLED (\E ev \in FailKeyEvents : handle_key_event(ev, MaxEvents)))

\* Timer 1 has failed; timer 2, of another key, has tapped since, and the key
\* loop has handled both events and is ready for more.
C18_Witness ==
    /\ Len(tasks) = 2
    /\ tasks[1].pc = "finished"
    /\ tasks[1].key_code # tasks[2].key_code
    /\ sink = VirtualKeyEvent(tasks[2].key_code, "Released", "timer", 2)
    /\ contains_key(hash_u16(tasks[2].key_code))
    /\ pc["key"] = "idle"

\* C19: a timer that stopped on a failed write has no entry in the registry,
\* and a Pressed event whose decision is true, handled while no live timer
\* exists for its key, starts a new timer.
C19_FailedTimerUnregistered ==
    /\ [](\A h \in DOMAIN active_repeaters :
              tasks[active_repeaters[h].handle].pc # "finished")
    /\ [][ (/\ pc["key"] = "press_check"
            /\ pc'["key"] # "press_check"
            /\ \A t \in DOMAIN tasks :
                  tasks[t].key_code = event.key_code
                      => tasks[t].pc \in {"finished", "cancelled"})
             => Len(tasks') = Len(tasks) + 1 ]_vars

(***************************************************************************)
(* The release of a graceful stop.                                         *)
(***************************************************************************)
\* Caller p's graceful stop found key code k registered when it began and has
\* sent the Released event for it.
StopReleased(p, k) ==
    /\ k \in stop_keys[p]
    /\ k \in Range(stop_sent[p])

\* C20: once a graceful stop has sent the Released event of a key that was
\* registered when the stop began, the timer registered for that key writes no
\* synthetic press or release to the sink.
C20_StopReleaseIsTrailing ==
    \A p \in Procs :
        ~ /\ sink.src = "timer"
          /\ StopReleased(p, sink.key_code)
          /\ p = "win" => sink.task <= tasks_before
          /\ contains_key(hash_u16(sink.key_code))
          /\ active_repeaters[hash_u16(sink.key_code)].handle = sink.task

(***************************************************************************)
(* Delivery of a window change.                                            *)
(***************************************************************************)
\* C21: a delivery of a window change runs update_title, then the graceful
\* stop, then records the window: the stop begins only after update_title, with
\* the context holding the new title; the window is recorded only after the
\* stop has returned, in the step that ends the delivery; and current_window
\* changes in no other step, so it is the old window all through the stop.
C21_TitleStopRecord ==
    /\ [][ /\ pc'["win"] = "title_swap" /\ pc["win"] # "title_swap"
                => pc["win"] = "idle"
           /\ pc'["win"] = "title_write" /\ pc["win"] # "title_write"
                => pc["win"] = "title_swap"
           /\ pc'["win"] = "stop_len" /\ pc["win"] # "stop_len"
                => /\ pc["win"] \in {"title_swap", "title_write"}
                   /\ title_hash' = hash_str(window.title)
                   /\ title_lower' = to_lowercase(window.title)
           /\ pc'["win"] = "window_record" /\ pc["win"] # "window_record"
                => pc["win"] \in {"stop_len", "stop_clear"}
           /\ current_window' # current_window
                => /\ pc["win"] = "window_record" /\ pc'["win"] = "idle"
                   /\ current_window' = window ]_vars
    /\ [](pc["win"] # "idle" => current_window # window)

C21_Witness ==
    /\ current_window \in Windows
    /\ pc["win"] = "idle"
    /\ title_lower = to_lowercase(current_window.title)
    /\ \E t \in DOMAIN tasks : tasks[t].by = "stop_all"

(***************************************************************************)
(* RealWindowDetector::run.  pc["win"] is the position inside the function *)
(* named by detection: "enter", the labels of the polling loop ("idle" is  *)
(* the wait for the next tick) and those of send_window_event.  The key    *)
(* loop is at rest in these specifications.                                *)
(***************************************************************************)
ConfigPolling ==
    [ConfigAnyWindow EXCEPT !.window.detection_mode = "polling"]

\* The windows a desktop can report as active.
DetectWindows ==
    Windows \cup { [title |-> <<"w", "e", "b">>, class |-> "firefox"] }

\* Everything the detection loop touches only through handle_window_event.
schedulerVars ==
    << repeaterVars, contextVars, tasks, keyLocals, release_events, stopGhost, nEvents >>

Loops == {"run_kde_dbus", "run_gnome_dbus", "run_polling_detection"}

\* The method a loop queries: its local working_method; the GNOME loop asks
\* xdotool whatever was probed.
QueriedMethod == IF detection = "run_gnome_dbus" THEN "Xdotool" ELSE local_method

\* run's match on detection_mode.
run ==
    /\ detection = "run"
    /\ pc["win"] = "enter"
    /\ detection' = CASE config.window.detection_mode = "dbus" -> "run_dbus_detection"
                      [] config.window.detection_mode = "polling" -> "run_polling_detection"
                      [] OTHER -> "returned Err"
    /\ UNCHANGED << mainVars, deviceVars, listenerVars, testVars, schedulerVars, winLocals, pc, desktop_env, working_method,
                    local_method, tools >>
    /\ no_write

\* What run does with an Err of run_dbus_detection: warn, and poll.
FallBackToPolling ==
    /\ detection' = "run_polling_detection"
    /\ UNCHANGED << pc, working_method, local_method >>

\* A run that hands the error of run_dbus_detection to its caller.
run_dbus_detection_or_fail(feature, connected) ==
    /\ detection = "run_dbus_detection"
    /\ pc["win"] = "enter"
    /\ detection' = "returned Err"
    /\ UNCHANGED << mainVars, deviceVars, listenerVars, testVars, schedulerVars, winLocals, pc, desktop_env, working_method,
                    local_method, tools >>
    /\ no_write

\* run_dbus_detection, in a build with (feature) or without the dbus feature,
\* with a session bus that accepts the connection (connected) or not: up to
\* the first tick of run_kde_dbus or run_gnome_dbus, or to the Err that makes
\* run start run_polling_detection.
run_dbus_detection(feature, connected) ==
    /\ detection = "run_dbus_detection"
    /\ pc["win"] = "enter"
    /\ IF ~feature \/ desktop_env \notin {"KDE", "GNOME"} \/ ~connected
       THEN FallBackToPolling
       ELSE IF desktop_env = "GNOME"
       THEN /\ detection' = "run_gnome_dbus"
            /\ Goto("win", "idle")
            /\ UNCHANGED << working_method, local_method >>
       ELSE LET method == detect_working_method(desktop_env, tools)
            IN  IF method = Err
                THEN FallBackToPolling
                ELSE /\ detection' = "run_kde_dbus"
                     /\ working_method' = method
                     /\ local_method' = method
                     /\ Goto("win", "idle")
    /\ UNCHANGED << mainVars, deviceVars, listenerVars, testVars, schedulerVars, winLocals, desktop_env, tools >>
    /\ no_write

\* The probe with which run_polling_detection starts.
run_polling_detection ==
    /\ detection = "run_polling_detection"
    /\ pc["win"] = "enter"
    /\ LET method == detect_working_method(desktop_env, tools)
       IN  IF method = Err
           THEN /\ Goto("win", "retry_sleep")
                /\ UNCHANGED << working_method, local_method >>
           ELSE /\ working_method' = method
                /\ local_method' = method
                /\ Goto("win", "idle")
    /\ UNCHANGED << mainVars, deviceVars, listenerVars, testVars, schedulerVars, winLocals, desktop_env, tools, detection >>
    /\ no_write

\* The retry loop at the start of run_polling_detection: sleep, probe again.
retry_detect ==
    /\ detection = "run_polling_detection"
    /\ pc["win"] = "retry_sleep"
    /\ LET method == detect_working_method(desktop_env, tools)
       IN  IF method = Err
           THEN UNCHANGED << pc, working_method, local_method >>
           ELSE /\ working_method' = method
                /\ local_method' = method
                /\ Goto("win", "idle")
    /\ UNCHANGED << mainVars, deviceVars, listenerVars, testVars, schedulerVars, winLocals, desktop_env, tools, detection >>
    /\ no_write

\* A tick whose query returns Ok(w) for a changed window: send_window_event.
poll_changed(w) ==
    /\ detection \in Loops
    /\ pc["win"] = "idle"
    /\ get_active_window(tools, QueriedMethod)
    /\ send_window_event(w)

\* A tick whose query returns Ok(w) for the window already recorded.
poll_unchanged(w) ==
    /\ detection \in Loops
    /\ pc["win"] = "idle"
    /\ get_active_window(tools, QueriedMethod)
    /\ ~is_window_changed(w)
    /\ UNCHANGED << mainVars, deviceVars, listenerVars, testVars, schedulerVars, winLocals, pc, detectorVars >>
    /\ no_write

\* A loop that gives up at the first failed query.
poll_fails_fatal ==
    /\ detection \in Loops
    /\ pc["win"] = "idle"
    /\ ~get_active_window(tools, QueriedMethod)
    /\ detection' = "returned Err"
    /\ UNCHANGED << mainVars, deviceVars, listenerVars, testVars, schedulerVars, winLocals, pc, desktop_env, working_method,
                    local_method, tools >>
    /\ no_write

\* A tick whose query returns Err: the GNOME loop ignores it, the other loops
\* go on to probe again.
poll_fails ==
    /\ detection \in Loops
    /\ pc["win"] = "idle"
    /\ ~get_active_window(tools, QueriedMethod)
    /\ IF detection = "run_gnome_dbus" THEN pc' = pc ELSE Goto("win", "reprobe")
    /\ UNCHANGED << mainVars, deviceVars, listenerVars, testVars, schedulerVars, winLocals, detectorVars >>
    /\ no_write

\* A re-probe that forgets to switch the polled method.
reprobe_keeping_method ==
    /\ pc["win"] = "reprobe"
    /\ LET new_method == detect_working_method(desktop_env, tools)
       IN  IF new_method = Err
           THEN /\ Goto("win", "backoff")
                /\ UNCHANGED << working_method, local_method >>
           ELSE /\ working_method' = new_method
                /\ local_method' = local_method
                /\ Goto("win", "idle")
    /\ UNCHANGED << mainVars, deviceVars, listenerVars, testVars, schedulerVars, winLocals, desktop_env, tools, detection >>
    /\ no_write

\* The Err arm of the loop: detect_working_method again.  The polling loop
\* assigns the new method to its local as well; run_kde_dbus stores it in the
\* field only.
reprobe ==
    /\ pc["win"] = "reprobe"
    /\ LET new_method == detect_working_method(desktop_env, tools)
       IN  IF new_method = Err
           THEN /\ Goto("win", "backoff")
                /\ UNCHANGED << working_method, local_method >>
           ELSE /\ working_method' = new_method
                /\ local_method' = IF detection = "run_polling_detection"
                                   THEN new_method ELSE local_method
                /\ Goto("win", "idle")
    /\ UNCHANGED << mainVars, deviceVars, listenerVars, testVars, schedulerVars, winLocals, desktop_env, tools, detection >>
    /\ no_write

\* The ten-second sleep after a probe in which every test failed is over.
backoff_ends ==
    /\ pc["win"] = "backoff"
    /\ Goto("win", "idle")
    /\ UNCHANGED << mainVars, deviceVars, listenerVars, testVars, schedulerVars, winLocals, detectorVars >>
    /\ no_write

\* The desktop changes under the program: a tool is installed or removed, a
\* compositor starts or stops, the focus goes to nothing.
desktop_changes ==
    /\ \E m \in WorkingMethods :
          \E answer \in ToolStates(m) \ {tools[m]} :
              tools' = [tools EXCEPT ![m] = answer]
    /\ UNCHANGED << mainVars, deviceVars, listenerVars, testVars, schedulerVars, winLocals, pc, sink, desktop_env, working_method,
                    local_method, detection >>

InitDetect ==
    \E cfg \in {ConfigAnyWindow, ConfigPolling} :
        /\ KeyRepeaterNew(cfg)
        /\ desktop_env \in DesktopEnvironments
        /\ tools \in Desktops
        /\ working_method = None
        /\ local_method = None
        /\ detection = "run"
        /\ pc = [p \in Procs |-> IF p = "win" THEN "enter" ELSE "idle"]
        /\ VirtualDeviceNew
        /\ Spawned
        /\ ListenerNew
        /\ modifiers_test = NoTest

\* handle_window_event with no key held: the registry is empty and the
\* graceful stop returns at once.
Delivery ==
    \/ update_title_swap
    \/ update_title_write
    \/ stop_all_len("win")
    \/ send_window_event_record

Detector ==
    \/ run
    \/ \E feature, connected \in BOOLEAN : run_dbus_detection(feature, connected)
    \/ run_polling_detection
    \/ retry_detect
    \/ \E w \in DetectWindows : poll_changed(w)
    \/ \E w \in DetectWindows : poll_unchanged(w)
    \/ poll_fails
    \/ reprobe
    \/ backoff_ends
    \/ Delivery

NextDetect == Detector \/ desktop_changes

SpecDetect == InitDetect /\ [][NextDetect]_vars

\* The polling detector on a desktop that stays as it is: whatever a backend's
\* test or query answers, it answers for ever.
InitDesktop ==
    /\ KeyRepeaterNew(ConfigPolling)
    /\ desktop_env \in DesktopEnvironments
    /\ tools \in Desktops
    /\ working_method = None
    /\ local_method = None
    /\ detection = "run"
    /\ pc = [p \in Procs |-> IF p = "win" THEN "enter" ELSE "idle"]
    /\ VirtualDeviceNew
    /\ Spawned
    /\ ListenerNew
    /\ modifiers_test = NoTest

NextDesktop ==
    \/ run
    \/ run_polling_detection
    \/ retry_detect
    \/ \E w \in DetectWindows : poll_changed(w)
    \/ \E w \in DetectWindows : poll_unchanged(w)
    \/ poll_fails
    \/ reprobe
    \/ Delivery

SpecDesktop == InitDesktop /\ [][NextDesktop]_vars /\ WF_vars(NextDesktop)

\* The runtime keeps polling the detector's task and its sleeps end; nothing
\* is assumed of the desktop.
SpecDetectFair == SpecDetect /\ WF_vars(Detector)

(***************************************************************************)
(* detect_working_method on every desktop.                                 *)
(***************************************************************************)
InitProbe ==
    /\ KeyRepeaterNew(ConfigAnyWindow)
    /\ pc = [p \in Procs |-> "idle"]
    /\ desktop_env \in DesktopEnvironments
    /\ tools \in Desktops
    /\ working_method = None
    /\ local_method = None
    /\ detection = "detect_working_method"
    /\ VirtualDeviceNew
    /\ Spawned
    /\ ListenerNew
    /\ modifiers_test = NoTest

\* One call of detect_working_method; its result is kept in local_method.
test_detect_working_method ==
    /\ detection = "detect_working_method"
    /\ local_method' = detect_working_method(desktop_env, tools)
    /\ detection' = "returned"
    /\ UNCHANGED << mainVars, deviceVars, listenerVars, testVars, repeaterVars, contextVars, tasks, sink, pc, keyLocals,
                    release_events, winLocals, stopGhost, nEvents,
                    desktop_env, working_method, tools >>

NextProbe == test_detect_working_method

SpecProbe == InitProbe /\ [][NextProbe]_vars

Probed == detection = "returned"

\* The place of method m in the probe order of environment env.
PlaceOf(env, m) == CHOOSE i \in 1..Len(probe_order(env)) : probe_order(env)[i] = m

FirstOf(env) ==
    CASE env = "KDE" -> "Kdotool"
      [] env \in {"WaylandGeneric", "Unknown"} -> "Sway"
      [] env \in {"X11Generic", "GNOME"} -> "Xdotool"

\* C22: detect_working_method returns the backend that comes first in the
\* environment's probe order among those whose test succeeds, and an error
\* iff every test fails; the probe order lists each of the four backends
\* exactly once and starts with kdotool for KDE, sway for WaylandGeneric and
\* Unknown, xdotool for X11Generic and GNOME.
C22_FirstPassingProbe ==
    /\ Len(probe_order(desktop_env)) = 4
    /\ {probe_order(desktop_env)[i] : i \in 1..4} = WorkingMethods
    /\ probe_order(desktop_env)[1] = FirstOf(desktop_env)
    /\ Probed
         => /\ local_method = Err <=> \A m \in WorkingMethods : ~test(tools, m)
            /\ local_method # Err
                 => /\ local_method \in WorkingMethods
                    /\ test(tools, local_method)
                    /\ \A m \in WorkingMethods :
                          test(tools, m)
                              => PlaceOf(desktop_env, local_method)
                                     <= PlaceOf(desktop_env, m)

C22_Witness ==
    /\ Probed
    /\ desktop_env = "GNOME"
    /\ tools["Xdotool"] = "failing"
    /\ tools["Wmctrl"] = "failing"
    /\ tools["Sway"] = "blind"
    /\ tools["Kdotool"] = "answering"
    /\ local_method = "Sway"

(***************************************************************************)
(* The polling loop and its fallback.                                      *)
(***************************************************************************)
Polling == detection = "run_polling_detection"

\* Method m is the first of the environment's probe order whose test passes.
FirstPassing(m) ==
    /\ m \in WorkingMethods
    /\ test(tools, m)
    /\ \A other \in WorkingMethods :
          test(tools, other) => PlaceOf(desktop_env, m) <= PlaceOf(desktop_env, other)

\* C23: in polling mode a tick whose query on the active method fails leads to
\* a re-run of the probe ladder; if some backend passes its test, the first
\* such backend of the probe order becomes the active method, and the polls
\* that follow deliver a window only when that method's query succeeds (the
\* active method changes in a probe only); if no backend passes, the loop goes
\* into its backoff, from which it comes back to polling.
C23_ReprobeOnFailure ==
    /\ [][ Polling =>
            /\ (pc["win"] = "idle" /\ pc'["win"] # "idle")
                 => IF get_active_window(tools, local_method)
                    THEN pc'["win"] = "title_swap"
                    ELSE pc'["win"] = "reprobe" /\ local_method' = local_method
            /\ (pc["win"] = "reprobe" /\ pc'["win"] # "reprobe")
                 => IF \E m \in WorkingMethods : test(tools, m)
                    THEN /\ pc'["win"] = "idle"
                         /\ FirstPassing(local_method')
                         /\ working_method' = local_method'
                    ELSE /\ pc'["win"] = "backoff"
                         /\ local_method' = local_method
            /\ local_method' # local_method
                 => pc["win"] \in {"enter", "retry_sleep", "reprobe"}
            /\ (pc["win"] = "backoff" /\ pc'["win"] # "backoff")
                 => pc'["win"] = "idle" /\ local_method' = local_method ]_vars
    /\ (Polling /\ pc["win"] = "backoff") ~> (Polling /\ pc["win"] = "idle")

\* The polling loop has delivered a window, then a query failed and every test
\* of the re-probe failed: it is in its backoff.
C23_Witness ==
    /\ Polling
    /\ pc["win"] = "backoff"
    /\ local_method \in WorkingMethods
    /\ current_window \in DetectWindows

\* C24: on every desktop on which some backend answers queries, the polling
\* detector comes to poll a backend whose queries succeed and delivers the
\* active window to the scheduler.
C24_FallsBackToAnsweringBackend ==
    (\E m \in WorkingMethods : get_active_window(tools, m))
        => <>(/\ Polling
              /\ local_method \in WorkingMethods
              /\ get_active_window(tools, local_method)
              /\ current_window \in DetectWindows)

(***************************************************************************)
(* Errors of the detector.                                                 *)
(***************************************************************************)
\* run_dbus_detection cannot but return an error: the desktop environment has
\* no D-Bus loop, or it is KDE and no backend passes its test.
DbusMustFail ==
    \/ desktop_env \notin {"KDE", "GNOME"}
    \/ desktop_env = "KDE" /\ \A m \in WorkingMethods : ~test(tools, m)

\* C25: in dbus mode run_dbus_detection ends either in one of the D-Bus loops
\* or, when it returns an error, in run_polling_detection starting from its
\* first probe; run never returns the error.
C25_DbusErrorFallsBackToPolling ==
    /\ [][ (detection = "run_dbus_detection" /\ detection' # detection)
             => /\ config.window.detection_mode = "dbus"
                /\ detection' \in Loops
                /\ DbusMustFail => detection' = "run_polling_detection"
                /\ detection' = "run_polling_detection"
                     => /\ pc'["win"] = "enter"
                        /\ working_method' = None
                        /\ local_method' = None ]_vars
    /\ [](detection \in {"run", "run_dbus_detection"} \cup Loops)

\* The polling loop is running with a backend although the mode is dbus and the
\* desktop is a KDE one where a backend passed its test: the session bus
\* refused the connection, or the build has no dbus feature.
C25_Witness ==
    /\ config.window.detection_mode = "dbus"
    /\ desktop_env = "KDE"
    /\ Polling
    /\ pc["win"] = "idle"
    /\ local_method = "Kdotool"
    /\ current_window \in DetectWindows

\* C26: once run_polling_detection has started it never returns, whatever the
\* backends' tests and queries answer: the detector stays in it and always has
\* a next step to take, a probe, a poll, a step of a delivery or the end of a
\* sleep.
C26_PollingNeverReturns ==
    /\ [][ Polling => Polling' ]_vars
    /\ [](Polling => /\ pc["win"] \in {"enter", "retry_sleep", "idle", "reprobe",
                                       "backoff", "title_swap", "title_write",
                                       "stop_len", "window_record"}
                     /\ ENABLED Detector)

\* Every backend is failing and the polling loop, having delivered a window
\* earlier, is in its backoff.
C26_Witness ==
    /\ Polling
    /\ \A m \in WorkingMethods : tools[m] = "failing"
    /\ pc["win"] = "backoff"
    /\ current_window \in DetectWindows
    /\ config.window.detection_mode = "polling"

(***************************************************************************)
(* Shutdown.  main waits for ctrl_c, then runs the graceful stop, the      *)
(* sweep of release_all_keys, aborts the two loops' tasks and waits for    *)
(* them, five seconds at most.  The model has no clock: the wait may       *)
(* elapse whenever a task has not finished.  An aborted loop is dropped at *)
(* its next await, the listener's readable() and the detector's tick;      *)
(* the timers are aborted by the graceful stop alone.  When main returns   *)
(* the runtime is dropped, and nothing runs after it.                      *)
(***************************************************************************)
ShutdownEvents == 2

ShutdownKeyEvents ==
    { [key_code |-> KEY_SPACE, state |-> st, modifiers |-> 0] :
          st \in {"Pressed", "Released"} }

mainFrame ==
    << detectorVars, deviceVars, listenerVars, testVars, repeaterVars, contextVars, tasks,
       keyLocals, release_events, winLocals, nEvents, stopGhost >>

\* signal::ctrl_c().await returns, with the signal or with an error: main goes
\* on to the shutdown either way.
ctrl_c ==
    /\ pc["main"] = "idle"
    /\ Goto("main", "stop_len")
    /\ UNCHANGED << mainFrame, mainVars >>
    /\ no_write

\* VirtualDevice::release_all_keys: one sweep over the device, or an error
\* that main logs and ignores.
release_all_keys ==
    /\ pc["main"] = "release_all_keys"
    /\ \/ send_event(VirtualKeyEvent(0, "Released", "release_all_keys", 0))
       \/ send_event_fails
    /\ Goto("main", "abort")
    /\ UNCHANGED << mainFrame, mainVars >>

\* keyboard_handle.abort(); window_handle.abort().
abort_tasks ==
    /\ pc["main"] = "abort"
    /\ keyboard_handle' = "aborting"
    /\ window_handle' = "aborting"
    /\ Goto("main", "timeout")
    /\ UNCHANGED << mainFrame, shutdown_result, reported >>
    /\ no_write

BothFinished == keyboard_handle = "finished" /\ window_handle = "finished"

\* tokio::time::timeout over the two joins.
shutdown_wait ==
    /\ pc["main"] = "timeout"
    /\ shutdown_result' = IF BothFinished THEN "Ok" ELSE "Elapsed"
    /\ Goto("main", "match")
    /\ UNCHANGED << mainFrame, keyboard_handle, window_handle, reported >>
    /\ no_write

\* A main that reports every end of the wait as a clean completion.
shutdown_report_clean ==
    /\ pc["main"] = "match"
    /\ reported' = "info"
    /\ Goto("main", "exit")
    /\ UNCHANGED << mainFrame, keyboard_handle, window_handle, shutdown_result >>
    /\ no_write

\* match shutdown_result: info! for Ok, warn! for the timeout; main returns.
shutdown_report ==
    /\ pc["main"] = "match"
    /\ reported' = IF shutdown_result = "Ok" THEN "info" ELSE "warn"
    /\ Goto("main", "exit")
    /\ UNCHANGED << mainFrame, keyboard_handle, window_handle, shutdown_result >>
    /\ no_write

\* The aborted listener reaches readable().await and is dropped.
listener_cancelled ==
    /\ keyboard_handle = "aborting"
    /\ pc["key"] = "idle"
    /\ keyboard_handle' = "finished"
    /\ UNCHANGED << mainFrame, pc, window_handle, shutdown_result, reported >>
    /\ no_write

\* The aborted detector reaches interval.tick().await and is dropped.
detector_cancelled ==
    /\ window_handle = "aborting"
    /\ pc["win"] = "idle"
    /\ window_handle' = "finished"
    /\ UNCHANGED << mainFrame, pc, keyboard_handle, shutdown_result, reported >>
    /\ no_write

Shutdown ==
    \/ StopAll("main")
    \/ release_all_keys
    \/ abort_tasks
    \/ shutdown_wait
    \/ shutdown_report

\* The listener's loop takes a new event only while its task is not aborted.
Listener ==
    /\ pc["key"] = "idle" => keyboard_handle = "running"
    /\ \/ \E ev \in ShutdownKeyEvents : handle_key_event(ev, ShutdownEvents)
       \/ should_repeat_cached_fill
       \/ forward_event
       \/ handle_key_press_send
       \/ handle_key_press_check
       \/ start_repeater_insert
       \/ stop_repeater
       \/ handle_key_release_send

DetectorTask ==
    /\ pc["win"] = "idle" => window_handle = "running"
    /\ DetectionLoop \/ StopAll("win")

\* What the runtime runs beside main, until main returns.
Spawns ==
    /\ pc["main"] # "exit"
    /\ \/ Listener
       \/ DetectorTask
       \/ Timers
       \/ listener_cancelled
       \/ detector_cancelled

NextShutdown ==
    \/ ctrl_c
    \/ Shutdown
    \/ Spawns

\* main runs on the runtime's main thread and its shutdown has no await that
\* can stay pending: once the signal has come, its steps are taken.
SpecShutdown == Init /\ [][NextShutdown]_vars /\ WF_vars(Shutdown)

MainPhase ==
    CASE pc["main"] = "idle" -> 0
      [] pc["main"] \in {"stop_len", "stop_collect", "stop_send", "stop_abort",
                         "stop_clear"} -> 1
      [] pc["main"] = "release_all_keys" -> 2
      [] pc["main"] = "abort" -> 3
      [] pc["main"] = "timeout" -> 4
      [] pc["main"] = "match" -> 5
      [] pc["main"] = "exit" -> 6

\* C27: after the shutdown signal main goes through the graceful stop, the
\* release-all-keys sweep, the abort of the listener's and the detector's
\* tasks and the bounded wait, in this order and skipping none; it always comes
\* to its return; and a wait that timed out is reported as a warning, one that
\* saw both tasks finish as a clean completion.
C27_ShutdownSequence ==
    /\ [][ /\ MainPhase' \in {MainPhase, MainPhase + 1}
           /\ sink'.src = "release_all_keys" => MainPhase = 2 /\ MainPhase' = 3
           /\ MainPhase' <= 3 => keyboard_handle' = "running" /\ window_handle' = "running"
           /\ MainPhase' >= 4 => keyboard_handle' # "running" /\ window_handle' # "running"
           /\ MainPhase' <= 4 <=> shutdown_result' = None
           /\ MainPhase' <= 5 <=> reported' = None ]_vars
    /\ [](shutdown_result = "Ok" => BothFinished)
    /\ [](reported = "warn" <=> pc["main"] = "exit" /\ shutdown_result = "Elapsed")
    /\ [](reported = "info" <=> pc["main"] = "exit" /\ shutdown_result = "Ok")
    /\ (pc["main"] # "idle") ~> (pc["main"] = "exit")

\* main has returned after a graceful stop that released a held key and a wait
\* that timed out with the listener still inside a handler.
C27_Witness ==
    /\ pc["main"] = "exit"
    /\ stop_keys["main"] = {KEY_SPACE}
    /\ stop_sent["main"] = << KEY_SPACE >>
    /\ shutdown_result = "Elapsed"
    /\ reported = "warn"
    /\ keyboard_handle = "aborting"
    /\ window_handle = "finished"

(***************************************************************************)
(* VirtualDevice::send_event, write by write.  The key loop, the detector  *)
(* (through the graceful stop) and a timer call it from their own threads  *)
(* on the one device main created.  The MutexGuard is dropped when the     *)
(* call returns, after the sync write or at the early return of a failed   *)
(* write.                                                                  *)
(***************************************************************************)
EV_SYN == 0
EV_KEY == 1

DeviceKeyCodes == {KEY_SPACE, KEY_J}

\* KeyState as the value of the key write.
KeyStateValue(state) ==
    CASE state = "Pressed" -> 1
      [] state = "Released" -> 0
      [] state = "Repeat" -> 2

\* What each caller sends: the key loop forwards any state, a timer taps, the
\* graceful stop releases.
SenderStates(s) ==
    CASE s = "key" -> KeyStates
      [] s = "timer" -> {"Pressed", "Released"}
      [] s = "win" -> {"Released"}

DeviceWrite(type, code, value, s) ==
    [type |-> type, code |-> code, value |-> value, by |-> s]

deviceFrame ==
    << detectorVars, mainVars, listenerVars, testVars, schedulerVars, winLocals, pc, sink >>

At(s, label) == sending' = [sending EXCEPT ![s].at = label]

\* The call, up to device_mutex.lock().
send_event_call(s) ==
    /\ sending[s].at = "idle"
    /\ \E key_code \in DeviceKeyCodes, state \in SenderStates(s) :
          sending' = [sending EXCEPT ![s] =
                          [at |-> "lock", key_code |-> key_code,
                           value |-> KeyStateValue(state)]]
    /\ UNCHANGED << deviceFrame, device_mutex, device >>

\* A send_event that goes on to write without taking the mutex.
send_event_without_lock(s) ==
    /\ sending[s].at = "lock"
    /\ At(s, "write_key")
    /\ UNCHANGED << deviceFrame, device_mutex, device >>

\* device_mutex.lock(): the caller's thread blocks while another holds it.
send_event_lock(s) ==
    /\ sending[s].at = "lock"
    /\ device_mutex = None
    /\ device_mutex' = s
    /\ At(s, "write_key")
    /\ UNCHANGED << deviceFrame, device >>

\* device.write(1, keycode, value); on an error the call returns.
send_event_write_key(s) ==
    /\ sending[s].at = "write_key"
    /\ \/ /\ device' = DeviceWrite(EV_KEY, sending[s].key_code, sending[s].value, s)
          /\ At(s, "write_sync")
          /\ UNCHANGED device_mutex
       \/ /\ sending' = [sending EXCEPT ![s] = NoSend]
          /\ device_mutex' = IF device_mutex = s THEN None ELSE device_mutex
          /\ UNCHANGED device
    /\ UNCHANGED deviceFrame

\* device.write(0, 0, 0), or its error; the call returns.
send_event_write_sync(s) ==
    /\ sending[s].at = "write_sync"
    /\ \/ device' = DeviceWrite(EV_SYN, 0, 0, s)
       \/ UNCHANGED device
    /\ sending' = [sending EXCEPT ![s] = NoSend]
    /\ device_mutex' = IF device_mutex = s THEN None ELSE device_mutex
    /\ UNCHANGED deviceFrame

NextDevice ==
    \E s \in Senders :
        \/ send_event_call(s)
        \/ send_event_lock(s)
        \/ send_event_write_key(s)
        \/ send_event_write_sync(s)

SpecDevice == Init /\ [][NextDevice]_vars

\* C28: between the key write of a send_event and the end of that call the
\* device receives no write of another call: the next write it receives is
\* that call's sync write; and whoever is writing holds the mutex alone.
C28_WritesSerialized ==
    /\ [][ \A s \in Senders :
              (sending[s].at = "write_sync" /\ device' # device)
                  => /\ device' = DeviceWrite(EV_SYN, 0, 0, s)
                     /\ sending'[s].at = "idle" ]_vars
    /\ [](\A s \in Senders :
              /\ sending[s].at \in {"write_key", "write_sync"} => device_mutex = s
              /\ sending[s].at = "write_sync"
                   => device = DeviceWrite(EV_KEY, sending[s].key_code,
                                           sending[s].value, s))

\* A timer has written its press and is about to write the sync, while the key
\* loop and the graceful stop are both blocked on the mutex.
C28_Witness ==
    /\ sending["timer"].at = "write_sync"
    /\ device = DeviceWrite(EV_KEY, KEY_SPACE, 1, "timer")
    /\ sending["key"].at = "lock"
    /\ sending["win"].at = "lock"
    /\ device_mutex = "timer"

(***************************************************************************)
(* Who writes the window context.                                          *)
(***************************************************************************)
\* A step of the key-event loop: of handle_key_event or of what it calls.
KeyLoopSteps ==
    \/ pc'["key"] # pc["key"]
    \/ release_events'["key"] # release_events["key"]
    \/ << event, should_repeat, cache_key, handle, nEvents >>'
         # << event, should_repeat, cache_key, handle, nEvents >>

\* C29: no step of handle_key_event changes the window context's title, title
\* hash or patterns hash; they change only in the update_title of a
\* handle_window_event the detector called, to the lowercase and the hash of
\* the window it is delivering, and the patterns hash does not change at all.
C29_KeyHandlingLeavesContext ==
    [][ /\ KeyLoopSteps => contextVars' = contextVars
        /\ patterns_hash' = patterns_hash
        /\ title_hash' # title_hash
             => /\ pc["win"] = "title_swap"
                /\ pc'["win"] = "title_write"
                /\ title_hash' = hash_str(window.title)
        /\ title_lower' # title_lower
             => /\ pc["win"] = "title_write"
                /\ pc'["win"] = "stop_len"
                /\ title_lower' = to_lowercase(window.title) ]_vars

\* Both key events have been handled after the detector set the title, one of
\* them through the miss path of the cache, and a timer is registered.
C29_Witness ==
    /\ title_hash = hash_str(<<"N", "V", "I", "M">>)
    /\ title_lower = <<"n", "v", "i", "m">>
    /\ current_window \in Windows
    /\ nEvents = MaxEvents
    /\ pc["key"] = "idle"
    /\ \E ck \in DOMAIN decision_cache : ck.title_hash = title_hash
    /\ DOMAIN active_repeaters # {}

(***************************************************************************)
(* Config::load in main: validate decides whether main goes on to create   *)
(* its components or returns the error.  The configurations vary every     *)
(* field validate reads, at and around the values it accepts.              *)
(***************************************************************************)
ValidateMappings ==
    { <<>>,
      Mappings,
      << [key |-> "", modifiers |-> <<>>] >>,
      << [key |-> "j", modifiers |-> <<"meta">>] >>,
      << [key |-> "j", modifiers |-> <<"Ctrl">>] >>,
      << [key |-> "j", modifiers |-> <<"ctrl", "alt", "shift", "super">>],
         [key |-> "space", modifiers |-> <<"super", "hyper">>] >>,
      << [key |-> "j", modifiers |-> <<>>], [key |-> "", modifiers |-> <<"ctrl">>] >> }

ValidateConfigs ==
    { [ logging |-> [level |-> level, format |-> format],
        repeat |-> [repeat_delay_ms |-> delay, repeat_toggle_key |-> None],
        window |-> [detection_mode |-> mode, polling_interval_ms |-> interval,
                    window_title_patterns |-> <<>>],
        mappings |-> mappings ] :
          level \in {"trace", "error", "verbose", "INFO"},
          format \in {"pretty", "json", "text"},
          delay \in {0, 1, 50},
          mode \in {"dbus", "polling", "auto", ""},
          interval \in {0, 99, 100, 1000},
          mappings \in ValidateMappings }

\* main before Config::load; the components do not exist yet and their
\* variables hold what construction will give them.
InitValidate ==
    \E cfg \in ValidateConfigs :
        /\ KeyRepeaterNew(cfg)
        /\ pc = [p \in Procs |-> IF p = "main" THEN "load" ELSE "idle"]
        /\ DetectorPolling
        /\ VirtualDeviceNew
        /\ Spawned
        /\ ListenerNew
        /\ modifiers_test = NoTest

\* Config::load(&args.config)?: the error of validate returns from main.
load ==
    /\ pc["main"] = "load"
    /\ Goto("main", IF validate(config) THEN "check_permissions" ELSE "returned Err")
    /\ UNCHANGED << mainFrame, mainVars >>
    /\ no_write

NextValidate == load

SpecValidate == InitValidate /\ [][NextValidate]_vars

Loaded == pc["main"] # "load"

AllowedModifiers == {"ctrl", "alt", "shift", "super"}

\* The faults the configuration has, by name.
Faults(cfg) ==
    {f \in {"level", "format", "repeat_delay_ms", "detection_mode",
            "polling_interval_ms", "key", "modifier"} :
        CASE f = "level" ->
                 cfg.logging.level \notin {"trace", "debug", "info", "warn", "error"}
          [] f = "format" -> cfg.logging.format \notin {"pretty", "json"}
          [] f = "repeat_delay_ms" -> cfg.repeat.repeat_delay_ms = 0
          [] f = "detection_mode" ->
                 cfg.window.detection_mode \notin {"dbus", "polling"}
          [] f = "polling_interval_ms" -> cfg.window.polling_interval_ms < 100
          [] f = "key" -> \E m \in Range(cfg.mappings) : m.key = ""
          [] f = "modifier" ->
                 \E m \in Range(cfg.mappings) :
                     Range(m.modifiers) \ AllowedModifiers # {} }

\* C30: Config::load returns the error of validate, before main creates any
\* component, exactly when the configuration has one of the faults: a logging
\* level or format that is not allowed, a repeat delay of 0, a detection mode
\* other than dbus and polling, a polling interval below 100, a mapping with an
\* empty key or with a modifier name outside ctrl, alt, shift, super.
C30_ValidateRejects ==
    Loaded => /\ pc["main"] = "returned Err" <=> Faults(config) # {}
              /\ pc["main"] = "check_permissions" <=> Faults(config) = {}

\* load has failed on a configuration whose one fault is a modifier name in its
\* second mapping.
C30_Witness ==
    /\ pc["main"] = "returned Err"
    /\ Faults(config) = {"modifier"}
    /\ Len(config.mappings) = 2
    /\ config.window.polling_interval_ms = 100

(***************************************************************************)
(* The probe orders compared.                                              *)
(***************************************************************************)
Inverted(order) == [i \in 1..Len(order) |-> order[Len(order) + 1 - i]]

\* C31: the probe order of WaylandGeneric is the probe order of KDE inverted,
\* so on a WaylandGeneric desktop detect_working_method returns what the
\* inverted KDE ladder returns.
C31_WaylandInvertsKde ==
    (Probed /\ desktop_env = "WaylandGeneric")
        => /\ probe_order(desktop_env) = Inverted(probe_order("KDE"))
           /\ local_method = ProbeLoop(Inverted(probe_order("KDE")), 1, tools)

\* C32: in the KDE D-Bus loop the method a poll queries is the method the
\* latest probe selected: after a re-probe has selected a new working method,
\* the following polls query that one.
C32_KdeLoopQueriesSelected ==
    (detection = "run_kde_dbus" /\ pc["win"] = "idle")
        => QueriedMethod = working_method

(***************************************************************************)
(* Which answers of a query are delivered.                                 *)
(***************************************************************************)
DeliveryPcs ==
    {"title_swap", "title_write", "window_record"} \cup StopPcs

\* C33: handle_window_event runs only for a window that differs from
\* current_window by its title or its class, or when there is no current
\* window yet; an answer equal to current_window in both starts nothing, so
\* that title hash, decision cache and registry stay as they are and no
\* release is sent; with no current window every answer is delivered.
C33_UnchangedWindowIgnored ==
    /\ pc["win"] \in DeliveryPcs
         => \/ current_window = NoWindow
            \/ window.title # current_window.title
            \/ window.class # current_window.class
    /\ (pc["win"] = "idle" /\ current_window = NoWindow)
         => \A w \in Windows : ENABLED send_window_event(w)
    /\ (pc["win"] = "idle" /\ current_window # NoWindow)
         => ~ENABLED send_window_event(current_window)

\* The window has been delivered and recorded, a key is repeating since, and
\* the detector is at its tick: a further answer naming the same window finds
\* the title hash, the cache and the registry as they are.
C33_Witness ==
    /\ pc["win"] = "idle"
    /\ current_window \in Windows
    /\ title_hash = hash_str(current_window.title)
    /\ DOMAIN active_repeaters # {}
    /\ DOMAIN decision_cache # {}
    /\ \E t \in DOMAIN tasks : tasks[t].pc = "parked" /\ ~tasks[t].aborted

(***************************************************************************)
(* Timers and the registry.                                                *)
(***************************************************************************)
\* The timer start_repeater has spawned and not inserted yet.
BeingInserted(t) == pc["key"] = "insert" /\ handle = t

\* C34: every timer that nobody has aborted is in the registry (but for the one
\* start_repeater is about to insert): clear removes no entry whose timer was
\* not aborted and insert replaces none, so a later release or stop can still
\* cancel every running timer.
C34_RunningTimersRegistered ==
    \A t \in DOMAIN tasks :
        (~tasks[t].aborted /\ ~BeingInserted(t))
            => \E h \in DOMAIN active_repeaters : active_repeaters[h].handle = t

(***************************************************************************)
(* The keyboard listener.  process_key_event reads one evdev key event,    *)
(* updates its ModifierState, attaches the modifiers to the KeyEvent and   *)
(* hands it to handle_key_event.  The keyboard sends Pressed for a key     *)
(* that is up, Repeat and Released for a key that is down.                 *)
(***************************************************************************)
ListenerEvents == 3

ListenerKeys == {KEY_LEFTCTRL, KEY_RIGHTCTRL, KEY_LEFTSHIFT, KEY_J}

\* The value of an evdev key event as a KeyState.
KeyStateOf(value) ==
    CASE value = 0 -> "Released"
      [] value = 1 -> "Pressed"
      [] value = 2 -> "Repeat"

\* ModifierState::update_key.
update_key(ms, key_code, pressed) ==
    CASE key_code \in {KEY_LEFTCTRL, KEY_RIGHTCTRL} -> [ms EXCEPT !.ctrl = pressed]
      [] key_code \in {KEY_LEFTALT, KEY_RIGHTALT} -> [ms EXCEPT !.alt = pressed]
      [] key_code \in {KEY_LEFTSHIFT, KEY_RIGHTSHIFT} -> [ms EXCEPT !.shift = pressed]
      [] key_code \in {KEY_LEFTMETA, KEY_RIGHTMETA} -> [ms EXCEPT !.super_key = pressed]
      [] OTHER -> ms

\* ModifierState::to_modifiers.
to_modifiers(ms) ==
    (IF ms.ctrl THEN CTRL ELSE 0) + (IF ms.alt THEN ALT ELSE 0)
        + (IF ms.shift THEN SHIFT ELSE 0) + (IF ms.super_key THEN SUPER ELSE 0)

process_key_event(key_code, value) ==
    /\ IF value = 1 THEN key_code \notin held ELSE key_code \in held
    /\ held' = CASE value = 1 -> held \cup {key_code}
                 [] value = 0 -> held \ {key_code}
                 [] OTHER -> held
    /\ modifier_state' = update_key(modifier_state, key_code, KeyStateOf(value) = "Pressed")
    /\ KeyRepeater_handle_key_event(
           [key_code |-> key_code, state |-> KeyStateOf(value),
            modifiers |-> to_modifiers(modifier_state')],
           ListenerEvents)

NextModifiers ==
    \/ \E key_code \in ListenerKeys, value \in {0, 1, 2} :
          process_key_event(key_code, value)
    \/ should_repeat_cached_fill
    \/ ignore_repeat
    \/ forward_event
    \/ handle_key_press_send
    \/ handle_key_press_check
    \/ start_repeater_insert
    \/ stop_repeater
    \/ handle_key_release_send
    \/ Timers

SpecModifiers == InitFail /\ [][NextModifiers]_vars

\* The modifier kinds that have a key down.
HeldKinds ==
    (IF held \cap {KEY_LEFTCTRL, KEY_RIGHTCTRL} # {} THEN CTRL ELSE 0)
        + (IF held \cap {KEY_LEFTALT, KEY_RIGHTALT} # {} THEN ALT ELSE 0)
        + (IF held \cap {KEY_LEFTSHIFT, KEY_RIGHTSHIFT} # {} THEN SHIFT ELSE 0)
        + (IF held \cap {KEY_LEFTMETA, KEY_RIGHTMETA} # {} THEN SUPER ELSE 0)

\* C35: after any sequence of key events the listener's modifier set, and the
\* set attached to the event it is handling, is the set of modifier kinds with
\* a key down; a Repeat of a held modifier key does not change it.
C35_ModifiersTrackHeldKeys ==
    /\ to_modifiers(modifier_state) = HeldKinds
    /\ pc["key"] # "idle" => event.modifiers = HeldKinds

(***************************************************************************)
(* Where a timer can be cancelled.                                         *)
(***************************************************************************)
TimerRelease(t) == VirtualKeyEvent(tasks[t].key_code, "Released", "timer", t)

\* C36: a timer is cancelled only in its sleep: a step that cancels it finds
\* it parked, or is its own release, after which it reaches the sleep with an
\* abort pending; a timer that has sent its press leaves that place only by
\* sending the release of the same key, or by the failure of that send.
C36_CancelledOnlyInSleep ==
    [][ \A t \in DOMAIN tasks :
          /\ (tasks[t].pc # "cancelled" /\ tasks'[t].pc = "cancelled")
               => \/ tasks[t].pc = "parked"
                  \/ tasks[t].pc = "release" /\ tasks[t].aborted /\ sink' = TimerRelease(t)
          /\ (tasks[t].pc = "release" /\ tasks'[t].pc # "release")
               => \/ sink' = TimerRelease(t) /\ tasks'[t].pc \in {"parked", "cancelled"}
                  \/ sink' = NoWrite /\ tasks'[t].pc = "finished" ]_vars

\* A timer aborted between its press and its release has sent the release and
\* has been cancelled on reaching its sleep.
C36_Witness ==
    /\ sink.src = "timer"
    /\ sink.state = "Released"
    /\ tasks[sink.task].pc = "cancelled"
    /\ DOMAIN active_repeaters = {}

(***************************************************************************)
(* The original press of handle_key_press.                                 *)
(***************************************************************************)
OriginalPress == VirtualKeyEvent(event.key_code, "Pressed", "key", 0)

\* C37: handle_key_press is entered for a Pressed event decided true; its
\* first step sends the original press of the event's key, once, and only
\* then is the registry consulted, with or without a RepeaterTask for the
\* key.  When the registry has a task for the key the handler returns from
\* the check with nothing written, the registry and every timer as they were.
C37_PressSentBeforeCheck ==
    [][ /\ (pc["key"] # "press_send" /\ pc'["key"] = "press_send")
             => event'.state = "Pressed" /\ should_repeat' /\ sink' = NoWrite
        /\ (pc["key"] = "press_send" /\ pc'["key"] # "press_send")
             => /\ sink' = OriginalPress
                /\ pc'["key"] = "press_check"
                /\ event' = event
                /\ active_repeaters' = active_repeaters
                /\ tasks' = tasks
        /\ (pc["key"] # "press_check" /\ pc'["key"] = "press_check")
             => pc["key"] = "press_send"
        /\ (pc["key"] = "press_check" /\ pc'["key"] # "press_check"
               /\ key_only_hash(event) \in DOMAIN active_repeaters)
             => /\ pc'["key"] = "idle"
                /\ sink' = NoWrite
                /\ active_repeaters' = active_repeaters
                /\ tasks' = tasks ]_vars

\* The press of a second Pressed event for a key has just been sent while the
\* key has its RepeaterTask and the timer of that task is running.
C37_Witness ==
    /\ pc["key"] = "press_check"
    /\ sink = OriginalPress
    /\ key_only_hash(event) \in DOMAIN active_repeaters
    /\ active_repeaters[key_only_hash(event)].key_code = event.key_code
    /\ ~tasks[active_repeaters[key_only_hash(event)].handle].aborted

(***************************************************************************)
(* The registry after the shutdown's graceful stop.                        *)
(***************************************************************************)
\* C38: from the return of the shutdown's stop_all_repeaters_gracefully to
\* main's exit the registry is empty and no timer is spawned, whatever the
\* key-event loop does in between.
C38_NoTimerAfterShutdownStop ==
    /\ [](MainPhase >= 2 => DOMAIN active_repeaters = {})
    /\ [][MainPhase >= 2 => Len(tasks') = Len(tasks)]_vars

(***************************************************************************)
(* The registry key.                                                       *)
(***************************************************************************)
RegistryKey == hash_u16(event.key_code)

\* C39: key_only_hash depends on the key code alone: events of one key have
\* one hash, that of the key code, whatever their modifiers and key states.  The registry is keyed
\* by it: every entry sits under the hash of its own key code, the check of
\* handle_key_press finds an entry exactly when the event's key has one, and
\* the release path removes the entry of the event's key whatever modifiers
\* the press and the release carried.
C39_RegistryKeyedByKeyCode ==
    /\ [](\A k \in KeyCodes, s \in KeyStates, m \in MatchBits :
             key_only_hash([key_code |-> k, state |-> s, modifiers |-> m]) = hash_u16(k))
    /\ [](\A h \in DOMAIN active_repeaters : h = hash_u16(active_repeaters[h].key_code))
    /\ [][ /\ (pc["key"] = "press_check" /\ pc'["key"] = "insert")
                => RegistryKey \notin DOMAIN active_repeaters
           /\ (pc["key"] = "press_check" /\ pc'["key"] = "idle")
                => RegistryKey \in DOMAIN active_repeaters
           /\ (pc["key"] = "insert" /\ pc'["key"] # "insert")
                => /\ RegistryKey \in DOMAIN active_repeaters'
                   /\ active_repeaters'[RegistryKey].handle = handle
           /\ (pc["key"] = "release_stop" /\ pc'["key"] # "release_stop")
                => /\ RegistryKey \notin DOMAIN active_repeaters'
                   /\ (RegistryKey \in DOMAIN active_repeaters
                         => tasks'[active_repeaters[RegistryKey].handle].aborted) ]_vars

\* The release of a key, arriving without modifiers, has removed and aborted
\* the timer that the key's press had started with ctrl held.
C39_Witness ==
    /\ pc["key"] = "release_send"
    /\ event.state = "Released"
    /\ event.modifiers = 0
    /\ handle # 0
    /\ tasks[handle].by = "stop_repeater"
    /\ tasks[handle].key_code = event.key_code
    /\ tasks[handle].modifiers = CTRL
    /\ RegistryKey \notin DOMAIN active_repeaters

(***************************************************************************)
(* Modifiers as a list of names and back.  The test converts every value   *)
(* of Modifiers with to_vec, lists the names in any order, and hands the   *)
(* list to from_vec and to modifiers_to_bits.                              *)
(***************************************************************************)
testFrame ==
    << detectorVars, mainVars, deviceVars, listenerVars, repeaterVars, contextVars,
       tasks, keyLocals, release_events, winLocals, nEvents, stopGhost, pc, sink >>

\* The orders in which the names of a list without repetitions can be listed.
Orders(names) == { p \in [1..Len(names) -> Range(names)] : Range(p) = Range(names) }

InitBits ==
    /\ KeyRepeaterNew(ConfigNvim)
    /\ pc = [p \in Procs |-> "idle"]
    /\ DetectorPolling
    /\ VirtualDeviceNew
    /\ Spawned
    /\ ListenerNew
    /\ \E original \in MatchBits : modifiers_test = ModifiersTest(original)

to_vec_call ==
    /\ modifiers_test.at = "to_vec"
    /\ modifiers_test' = [modifiers_test EXCEPT !.vec = to_vec(modifiers_test.original),
                                                !.at = "list"]
    /\ UNCHANGED testFrame

list_names ==
    /\ modifiers_test.at = "list"
    /\ \E p \in Orders(modifiers_test.vec) :
          modifiers_test' = [modifiers_test EXCEPT !.vec = p, !.at = "from_vec"]
    /\ UNCHANGED testFrame

from_vec_call ==
    /\ modifiers_test.at = "from_vec"
    /\ modifiers_test' = [modifiers_test EXCEPT !.restored = from_vec(modifiers_test.vec),
                                                !.at = "modifiers_to_bits"]
    /\ UNCHANGED testFrame

modifiers_to_bits_call ==
    /\ modifiers_test.at = "modifiers_to_bits"
    /\ modifiers_test' = [modifiers_test EXCEPT !.bits = modifiers_to_bits(modifiers_test.vec),
                                                !.at = "done"]
    /\ UNCHANGED testFrame

NextBits ==
    \/ to_vec_call
    \/ list_names
    \/ from_vec_call
    \/ modifiers_to_bits_call

SpecBits == InitBits /\ [][NextBits]_vars

\* The bit pattern of a list of names: ctrl is 1, alt 2, shift 4, super 8.
BitPattern(names) ==
    (IF "ctrl" \in Range(names) THEN 1 ELSE 0) + (IF "alt" \in Range(names) THEN 2 ELSE 0)
        + (IF "shift" \in Range(names) THEN 4 ELSE 0)
        + (IF "super" \in Range(names) THEN 8 ELSE 0)

\* C40: for each of the 16 modifier sets, to_vec lists the names of the bits
\* that are set; from_vec of the list gives the set back and modifiers_to_bits
\* of the list gives its bit pattern, in whatever order the names are listed.
C40_NamesRoundTrip ==
    /\ modifiers_test.at \notin {None, "to_vec"}
          => BitPattern(modifiers_test.vec) = modifiers_test.original
    /\ modifiers_test.at \in {"modifiers_to_bits", "done"}
          => modifiers_test.restored = modifiers_test.original
    /\ modifiers_test.at = "done"
          => /\ modifiers_test.bits = BitPattern(modifiers_test.vec)
             /\ modifiers_test.bits = modifiers_test.original

\* All four modifiers, listed from super to ctrl, have come back as the set
\* with all four bits.
C40_Witness ==
    /\ modifiers_test.at = "done"
    /\ modifiers_test.original = CTRL + ALT + SHIFT + SUPER
    /\ modifiers_test.vec = <<"super", "shift", "alt", "ctrl">>
    /\ modifiers_test.restored = CTRL + ALT + SHIFT + SUPER
    /\ modifiers_test.bits = CTRL + ALT + SHIFT + SUPER

====
